---- MODULE Spec2Model ----
(***************************************************************************)
(* A model of the sym-engine production rule engine: the object space with *)
(* its transactional overlay (src/src/space.rs), the search and apply      *)
(* machine of the runtime (src/src/runtime.rs) and the firing strategies   *)
(* of the system facade (src/src/system.rs).                               *)
(***************************************************************************)
EXTENDS Integers, Sequences, FiniteSets, TLC

VARIABLES
    access,              \* <<Space, Transaction, ...>>: the space and the open transactions over it
    OBJECT_ID_SEQUENCE,  \* the process-wide Id counter
    txlog,               \* per open transaction: the access at its start and the writes made in it
    nwrites,             \* number of writes made so far
    ntx,                 \* number of transactions opened so far
    last,                \* the outcome of the last operation
    run                  \* the state of the firing driver

vars == <<access, OBJECT_ID_SEQUENCE, txlog, nwrites, ntx, last, run>>

(***************************************************************************)
(* Bounds of the model.                                                    *)
(***************************************************************************)
MaxIds == 3
MaxTx == 2
MaxWrites == 2
MaxGcWrites == 2
MaxInt == 1000
MaxRules == 2
MaxFirings == 3
MaxLimit == 3
MaxValues == 3

\* The limit of the control helper tests.
TestLimit == 10

(***************************************************************************)
(* data.rs: values.                                                        *)
(***************************************************************************)
ValueObject(id) == [t |-> "obj", id |-> id]
ValueInt(n) == [t |-> "int", n |-> n]
ValueSymbol(s) == [t |-> "sym", s |-> s]
ValueTuple(items) == [t |-> "tup", items |-> items]

RECURSIVE Gcd(_, _)
Gcd(a, b) == IF b = 0 THEN a ELSE Gcd(b, a % b)

Abs(n) == IF n < 0 THEN -n ELSE n

\* Value::Float. An f64 is taken as the exact ratio num / den in lowest terms
\* with den > 0: rounding, the infinities and NaN are outside the model.
ValueFloat(num, den) ==
    LET g == Gcd(Abs(num), Abs(den))
    IN [t |-> "float", num |-> (IF den < 0 THEN -num ELSE num) \div g,
        den |-> Abs(den) \div g]

IsObject(v) == v.t = "obj"
IsTuple(v) == v.t = "tup"
IsNumber(v) == v.t \in {"int", "float"}

\* A number as a ratio: val as f64.
Num(v) == IF v.t = "int" THEN v.n ELSE v.num
Den(v) == IF v.t = "int" THEN 1 ELSE v.den

\* The symbols of the model in the order of Symbol's Ord, and the place of a
\* symbol in it.
SymbolOrder == <<"a", "b", "s", "t">>
SymbolRank(s) == CHOOSE i \in 1..Len(SymbolOrder) : SymbolOrder[i] = s

Cmp(a, b) == IF a < b THEN "Less" ELSE IF a > b THEN "Greater" ELSE "Equal"

\* The variants of Value from the greatest to the least of value_compare.
VariantRank(v) ==
    CASE v.t = "obj" -> 4 [] v.t = "sym" -> 3 [] v.t = "int" -> 2 [] v.t = "float" -> 1
      [] v.t = "tup" -> 0

\* value_compare: the order of two values. Tuples compare as vectors, item
\* by item and then by length.
RECURSIVE value_compare(_, _)
RECURSIVE CompareItems(_, _)
CompareItems(left, right) ==
    IF left = <<>> \/ right = <<>>
    THEN Cmp(Len(left), Len(right))
    ELSE IF value_compare(Head(left), Head(right)) # "Equal"
    THEN value_compare(Head(left), Head(right))
    ELSE CompareItems(Tail(left), Tail(right))

value_compare(left, right) ==
    IF IsNumber(left) /\ IsNumber(right)
    THEN Cmp(Num(left) * Den(right), Num(right) * Den(left))
    ELSE IF left.t # right.t THEN Cmp(VariantRank(left), VariantRank(right))
    ELSE CASE left.t = "obj" -> Cmp(left.id, right.id)
           [] left.t = "sym" -> Cmp(SymbolRank(left.s), SymbolRank(right.s))
           [] left.t = "tup" -> CompareItems(left.items, right.items)

\* impl PartialEq for Value: value_compare(..) == Equal.
ValueEq(a, b) == value_compare(a, b) = "Equal"

\* impl_match_value!(Value, |cmp, val| val == cmp)
match_value(cmp, val) == ValueEq(val, cmp)

(***************************************************************************)
(* space.rs: ObjectSet, an insertion-ordered set of Ids.                   *)
(***************************************************************************)
SeqContains(s, e) == \E i \in 1..Len(s) : s[i] = e

\* An add that pushes the Id without looking for it.
ObjectSetPush(objects, object) == [set |-> Append(objects, object), ret |-> TRUE]

\* ObjectSet::add: [set, ret].
ObjectSetAdd(objects, object) ==
    IF SeqContains(objects, object)
    THEN [set |-> objects, ret |-> FALSE]
    ELSE [set |-> Append(objects, object), ret |-> TRUE]

ObjectSetRemove(objects, object) ==
    [set |-> SelectSeq(objects, LAMBDA ex : ex # object),
     ret |-> SeqContains(objects, object)]

(***************************************************************************)
(* space.rs: AttrData = Vec<(Symbol, Vec<Value>)>, the groups of one       *)
(* object, and the operations of Attributes / AttributesMut on it.         *)
(***************************************************************************)
\* Index of the first group called name, or 0.
FirstGroup(attributes, name) ==
    LET hits == {i \in 1..Len(attributes) : attributes[i].name = name}
    IN IF hits = {} THEN 0 ELSE CHOOSE i \in hits : \A j \in hits : i <= j

\* Index of the first value of values that matches value, or 0.
Position(values, value) ==
    LET hits == {i \in 1..Len(values) : match_value(value, values[i])}
    IN IF hits = {} THEN 0 ELSE CHOOSE i \in hits : \A j \in hits : i <= j

RemoveAt(s, i) == SubSeq(s, 1, i - 1) \o SubSeq(s, i + 1, Len(s))

AttrHas(attributes, name, value) ==
    LET g == FirstGroup(attributes, name)
    IN g # 0 /\ Position(attributes[g].values, value) # 0

AttrHasNamed(attributes, name) ==
    LET g == FirstGroup(attributes, name)
    IN g # 0 /\ attributes[g].values # <<>>

AttrIterNamed(attributes, name) ==
    LET g == FirstGroup(attributes, name)
    IN IF g = 0 THEN <<>> ELSE attributes[g].values

\* AttributesIter::new: the iterator stands in the first group, or is done.
AttributesIterNew(attributes) ==
    IF attributes # <<>>
    THEN [attributes |-> Tail(attributes),
          state |-> [kind |-> "Current", name |-> Head(attributes).name,
                     values |-> Head(attributes).values]]
    ELSE [attributes |-> <<>>, state |-> [kind |-> "Done"]]

\* AttributesIter::next: [iter, item], item being <<>> for None.
RECURSIVE AttributesIterNext(_)
AttributesIterNext(iter) ==
    IF iter.state.kind = "Done" THEN [iter |-> iter, item |-> <<>>]
    ELSE IF iter.state.values # <<>>
    THEN [iter |-> [iter EXCEPT !.state.values = Tail(@)],
          item |-> <<iter.state.name, Head(iter.state.values)>>]
    ELSE IF iter.attributes # <<>>
    THEN AttributesIterNext([attributes |-> Tail(iter.attributes),
                             state |-> [kind |-> "Current",
                                        name |-> Head(iter.attributes).name,
                                        values |-> Head(iter.attributes).values]])
    ELSE [iter |-> [iter EXCEPT !.state = [kind |-> "Done"]], item |-> <<>>]

\* The items an iterator yields until its first None.
RECURSIVE Collect(_)
Collect(iter) ==
    LET n == AttributesIterNext(iter)
    IN IF n.item = <<>> THEN <<>> ELSE <<n.item>> \o Collect(n.iter)

\* Attributes::iter, collected.
AttrIter(attributes) == Collect(AttributesIterNew(attributes))

\* An add that always opens a new group at the end of the list.
AttrAddNewGroup(attributes, name, value) ==
    Append(attributes, [name |-> name, values |-> <<value>>])

\* An add that puts the value in front of the values of the group.
AttrAddFront(attributes, name, value) ==
    LET g == FirstGroup(attributes, name)
    IN IF g # 0
       THEN [attributes EXCEPT ![g].values = <<value>> \o @]
       ELSE Append(attributes, [name |-> name, values |-> <<value>>])

\* AttributesMut::add.
AttrAdd(attributes, name, value) ==
    LET g == FirstGroup(attributes, name)
    IN IF g # 0
       THEN [attributes EXCEPT ![g].values = Append(@, value)]
       ELSE Append(attributes, [name |-> name, values |-> <<value>>])

\* A remove_single that removes every occurrence of the value.
AttrRemoveAll(attributes, name, value) ==
    LET g == FirstGroup(attributes, name)
        p == IF g = 0 THEN 0 ELSE Position(attributes[g].values, value)
    IN IF p = 0
       THEN [attrs |-> attributes, removed |-> FALSE]
       ELSE [attrs |-> [attributes EXCEPT
                           ![g].values = SelectSeq(@, LAMBDA v : ~match_value(value, v))],
             removed |-> TRUE]

\* remove_single: [attrs, removed], removed = FALSE for None.
AttrRemoveSingle(attributes, name, value) ==
    LET g == FirstGroup(attributes, name)
        p == IF g = 0 THEN 0 ELSE Position(attributes[g].values, value)
    IN IF p = 0
       THEN [attrs |-> attributes, removed |-> FALSE]
       ELSE [attrs |-> [attributes EXCEPT ![g].values = RemoveAt(@, p)],
             removed |-> TRUE]

(***************************************************************************)
(* space.rs: ObjectData = map Id -> AttrData, as a function on its keys.   *)
(***************************************************************************)
EmptyObjects == [i \in {} |-> <<>>]

MapInsert(m, k, v) == [i \in (DOMAIN m) \cup {k} |-> IF i = k THEN v ELSE m[i]]

MapRetain(m, keep) == [i \in (DOMAIN m) \cap keep |-> m[i]]

(***************************************************************************)
(* space.rs: the Access trait, implemented by Space (access of length 1)   *)
(* and by Transaction (the last element of a longer access, its outer      *)
(* being the elements below it).                                           *)
(***************************************************************************)
SpaceNew == [roots |-> <<>>, objects |-> EmptyObjects]

Top(acc) == acc[Len(acc)]
Outer(acc) == SubSeq(acc, 1, Len(acc) - 1)
SetTop(acc, layer) == [acc EXCEPT ![Len(acc)] = layer]

Roots(acc) == Top(acc).roots

\* Space::attributes and Transaction::attributes.
RECURSIVE Attributes(_, _)
Attributes(acc, object) ==
    IF object \in DOMAIN Top(acc).objects
    THEN Top(acc).objects[object]
    ELSE IF Len(acc) = 1 THEN <<>> ELSE Attributes(Outer(acc), object)

\* An attributes_mut that starts every entry of a transaction empty.
AttributesMutEmpty(acc, object) ==
    IF object \in DOMAIN Top(acc).objects
    THEN acc
    ELSE SetTop(acc, [Top(acc) EXCEPT !.objects = MapInsert(@, object, <<>>)])

\* Space::attributes_mut and Transaction::attributes_mut: the entry of the
\* object in the top layer, created on first use (empty in a space, a copy of
\* the outer access's list in a transaction).
AttributesMut(acc, object) ==
    IF object \in DOMAIN Top(acc).objects
    THEN acc
    ELSE SetTop(acc, [Top(acc) EXCEPT !.objects = MapInsert(@, object,
                         IF Len(acc) = 1 THEN <<>> ELSE Attributes(Outer(acc), object))])

\* attributes_mut(object).add(name, value)
AccessAdd(acc, object, name, value) ==
    LET a == AttributesMut(acc, object)
    IN SetTop(a, [Top(a) EXCEPT !.objects[object] = AttrAdd(@, name, value)])

\* attributes_mut(object).remove_single(name, value): [acc, removed]
AccessRemoveSingle(acc, object, name, value) ==
    LET a == AttributesMut(acc, object)
        r == AttrRemoveSingle(Top(a).objects[object], name, value)
    IN [acc |-> SetTop(a, [Top(a) EXCEPT !.objects[object] = r.attrs]),
        removed |-> r.removed]

\* register_root / unregister_root: [acc, ret]
RegisterRoot(acc, object) ==
    LET r == ObjectSetAdd(Top(acc).roots, object)
    IN [acc |-> SetTop(acc, [Top(acc) EXCEPT !.roots = r.set]), ret |-> r.ret]

UnregisterRoot(acc, object) ==
    LET r == ObjectSetRemove(Top(acc).roots, object)
    IN [acc |-> SetTop(acc, [Top(acc) EXCEPT !.roots = r.set]), ret |-> r.ret]

\* Transaction::new(self, roots.clone()): a transaction opened over acc.
TransactionNew(acc) ==
    Append(acc, [roots |-> Top(acc).roots, objects |-> EmptyObjects])

\* The merge of a returned transaction into its outer access.
MergeUpdate(outer, update) ==
    [roots |-> update.roots,
     objects |-> [i \in (DOMAIN outer.objects) \cup (DOMAIN update.objects) |->
                     IF i \in DOMAIN update.objects
                     THEN update.objects[i] ELSE outer.objects[i]]]

\* A transaction() that takes over the root set also when the body returned None.
TransactionEndRootsLeak(acc, some) ==
    IF some
    THEN [acc |-> SetTop(Outer(acc), MergeUpdate(Top(Outer(acc)), Top(acc))), ret |-> TRUE]
    ELSE [acc |-> SetTop(Outer(acc), [Top(Outer(acc)) EXCEPT !.roots = Top(acc).roots]),
          ret |-> FALSE]

\* A transaction() that merges the attribute lists and keeps the outer root set.
TransactionEndKeepRoots(acc, some) ==
    IF some
    THEN [acc |-> SetTop(Outer(acc),
                     [MergeUpdate(Top(Outer(acc)), Top(acc)) EXCEPT !.roots = Top(Outer(acc)).roots]),
          ret |-> TRUE]
    ELSE [acc |-> Outer(acc), ret |-> FALSE]

\* A nested transaction() that merges into the base space instead of its outer.
TransactionEndIntoBase(acc, some) ==
    IF some
    THEN [acc |-> [Outer(acc) EXCEPT ![1] = MergeUpdate(@, Top(acc))], ret |-> TRUE]
    ELSE [acc |-> Outer(acc), ret |-> FALSE]

\* Space::transaction and Transaction::transaction after the body returned:
\* some = TRUE for Some(tx), tx being the top of acc; [acc, ret].
TransactionEnd(acc, some) ==
    IF some
    THEN [acc |-> SetTop(Outer(acc), MergeUpdate(Top(Outer(acc)), Top(acc))), ret |-> TRUE]
    ELSE [acc |-> Outer(acc), ret |-> FALSE]

\* What a caller can read from an access: the roots and every Id's attributes.
AllIds == 1..(MaxIds + 1)
View(acc) == [roots |-> Roots(acc), attrs |-> [i \in AllIds |-> Attributes(acc, i)]]

(***************************************************************************)
(* The caller's operations on the current access: the space itself while   *)
(* no transaction is open, the innermost open transaction otherwise (the   *)
(* borrow of the outer access keeps it from being written meanwhile).      *)
(***************************************************************************)
NoRun == [mode |-> "none"]
NoLast == [op |-> "none", ret |-> FALSE, count |-> 0, steps |-> 0, snap |-> <<>>,
           log |-> <<>>, inner |-> 0, tx |-> <<>>, arg |-> <<>>]

Write(op, id, name, value) ==
    [op |-> op, id |-> id, name |-> name, value |-> value, depth |-> 0]

\* The effect of one write of the caller on an access.
ApplyWrite(acc, w) ==
    CASE w.op = "add" -> AccessAdd(acc, w.id, w.name, w.value)
      [] w.op = "remove_single" -> AccessRemoveSingle(acc, w.id, w.name, w.value).acc
      [] w.op = "register_root" -> RegisterRoot(acc, w.id).acc
      [] w.op = "unregister_root" -> UnregisterRoot(acc, w.id).acc
      [] w.op = "create_object" -> AttributesMut(acc, w.id)
      [] w.op = "create_root_id" -> RegisterRoot(acc, w.id).acc

RECURSIVE Replay(_, _)
Replay(log, acc) ==
    IF log = <<>> THEN acc ELSE Replay(Tail(log), ApplyWrite(acc, Head(log)))

\* The write is made on the current access and noted in the innermost open
\* transaction's log.
DoWrite(w, limit) ==
    /\ nwrites < limit
    /\ access' = ApplyWrite(access, w)
    /\ nwrites' = nwrites + 1
    /\ txlog' = IF txlog = <<>> THEN txlog
                ELSE [txlog EXCEPT ![Len(txlog)].log =
                         Append(@, [w EXCEPT !.depth = Len(txlog)])]
    /\ last' = NoLast
    /\ UNCHANGED <<ntx, run>>

KnownIds == 1..(OBJECT_ID_SEQUENCE - 1)

\* Access::create_id followed by attributes_mut: create_object.
CreateObject(limit) ==
    /\ OBJECT_ID_SEQUENCE <= MaxIds
    /\ DoWrite(Write("create_object", OBJECT_ID_SEQUENCE, "", ValueInt(0)), limit)
    /\ OBJECT_ID_SEQUENCE' = OBJECT_ID_SEQUENCE + 1

\* Access::create_root_id.
CreateRootId(limit) ==
    /\ OBJECT_ID_SEQUENCE <= MaxIds
    /\ DoWrite(Write("create_root_id", OBJECT_ID_SEQUENCE, "", ValueInt(0)), limit)
    /\ OBJECT_ID_SEQUENCE' = OBJECT_ID_SEQUENCE + 1

RegisterRootOp(limit) ==
    /\ \E id \in KnownIds : DoWrite(Write("register_root", id, "", ValueInt(0)), limit)
    /\ UNCHANGED OBJECT_ID_SEQUENCE

UnregisterRootOp(limit) ==
    /\ \E id \in KnownIds : DoWrite(Write("unregister_root", id, "", ValueInt(0)), limit)
    /\ UNCHANGED OBJECT_ID_SEQUENCE

AddOp(names, values, limit) ==
    /\ \E id \in KnownIds, name \in names, value \in values :
          DoWrite(Write("add", id, name, value), limit)
    /\ UNCHANGED OBJECT_ID_SEQUENCE

RemoveSingleOp(names, values, limit) ==
    /\ \E id \in KnownIds, name \in names, value \in values :
          DoWrite(Write("remove_single", id, name, value), limit)
    /\ UNCHANGED OBJECT_ID_SEQUENCE

\* transaction(body) is entered: the body runs on a new transaction.
TransactionBegin ==
    /\ ntx < MaxTx
    /\ ntx' = ntx + 1
    /\ access' = TransactionNew(access)
    /\ txlog' = Append(txlog, [snap |-> access, log |-> <<>>, inner |-> 0])
    /\ last' = NoLast
    /\ UNCHANGED <<OBJECT_ID_SEQUENCE, nwrites, run>>

\* The body returns Some(tx): transaction() merges and returns true.
TransactionCommit ==
    /\ Len(access) > 1
    /\ LET r == TransactionEnd(access, TRUE)
           g == txlog[Len(txlog)]
       IN /\ access' = r.acc
          /\ txlog' = IF Len(txlog) = 1 THEN <<>>
                      ELSE [Outer(txlog) EXCEPT ![Len(txlog) - 1] =
                               [@ EXCEPT !.log = @ \o g.log, !.inner = @ + 1]]
          /\ last' = [op |-> "commit", ret |-> r.ret, count |-> 0, steps |-> 0, snap |-> g.snap,
                      log |-> g.log, inner |-> g.inner, tx |-> View(access), arg |-> <<>>]
    /\ UNCHANGED <<OBJECT_ID_SEQUENCE, nwrites, ntx, run>>

\* The body returns None: transaction() returns false.
TransactionRollback ==
    /\ Len(access) > 1
    /\ LET r == TransactionEnd(access, FALSE)
           g == txlog[Len(txlog)]
       IN /\ access' = r.acc
          /\ txlog' = Outer(txlog)
          /\ last' = [op |-> "rollback", ret |-> r.ret, count |-> 0, steps |-> 0, snap |-> g.snap,
                      log |-> g.log, inner |-> g.inner, tx |-> View(access), arg |-> <<>>]
    /\ UNCHANGED <<OBJECT_ID_SEQUENCE, nwrites, ntx, run>>

TxNames == {"x"}
TxValues == {ValueInt(1)}

\* A space after create_root_object / create_object and two add calls.
SpaceTwoObjects ==
    [roots |-> <<1>>,
     objects |-> [i \in {1, 2} |->
                     IF i = 1 THEN <<[name |-> "x", values |-> <<ValueInt(1)>>]>>
                     ELSE <<[name |-> "y", values |-> <<ValueInt(1)>>]>>]]

InitTx ==
    /\ \/ access = <<SpaceNew>> /\ OBJECT_ID_SEQUENCE = 1
       \/ access = <<SpaceTwoObjects>> /\ OBJECT_ID_SEQUENCE = 3
    /\ txlog = <<>>
    /\ nwrites = 0
    /\ ntx = 0
    /\ last = NoLast
    /\ run = NoRun

NextTx ==
    \/ CreateObject(MaxWrites)
    \/ CreateRootId(MaxWrites)
    \/ RegisterRootOp(MaxWrites)
    \/ UnregisterRootOp(MaxWrites)
    \/ AddOp(TxNames, TxValues, MaxWrites)
    \/ RemoveSingleOp(TxNames, TxValues, MaxWrites)
    \/ TransactionBegin
    \/ TransactionCommit
    \/ TransactionRollback

SpecTx == InitTx /\ [][NextTx]_vars

WritesOf(log, ops) == {i \in 1..Len(log) : log[i].op \in ops}

\* The Ids for which the log calls attributes_mut.
MutatedIds(log) ==
    {log[i].id : i \in WritesOf(log, {"add", "remove_single", "create_object"})}

\* C2: when the body of a transaction returns None, transaction() returns
\* false and the roots and every Id's attribute list of the outer access are
\* what they were when the transaction was opened, whatever was written in it.
C2_RollbackLeavesOuterUnchanged ==
    last.op = "rollback" =>
        /\ last.ret = FALSE
        /\ View(access) = View(last.snap)

\* A rollback that discarded writes which the transaction itself could see.
C2_Witness ==
    /\ last.op = "rollback"
    /\ last.log # <<>>
    /\ last.tx.roots # Roots(access)
    /\ last.tx.attrs # View(access).attrs

\* C3: when the body returns Some(tx), transaction() returns true, the outer
\* root set becomes the transaction's, every Id mutated in the transaction has
\* the transaction's attribute list and every other Id the list it had when
\* the transaction was opened.
C3_CommitInstallsTransaction ==
    last.op = "commit" =>
        /\ last.ret = TRUE
        /\ Roots(access) = last.tx.roots
        /\ \A id \in AllIds :
              Attributes(access, id) =
                  IF id \in MutatedIds(last.log)
                  THEN last.tx.attrs[id]
                  ELSE View(last.snap).attrs[id]

\* A commit that changed the roots and one Id's list and left another Id's
\* non-empty list alone.
C3_Witness ==
    /\ last.op = "commit"
    /\ Roots(access) # Roots(last.snap)
    /\ \E id \in MutatedIds(last.log) : Attributes(access, id) # Attributes(last.snap, id)
    /\ \E id \in AllIds \ MutatedIds(last.log) : Attributes(access, id) # <<>>

\* C4: nested transactions compose. While a transaction is open the access
\* below it is what it was when the transaction was opened (so what an inner
\* transaction commits reaches the base only through the outer commit); a
\* rollback restores the view at the start of the transaction, also after
\* inner commits and also for an inner transaction; a commit leaves the
\* outer access with the view that the writes of the transaction and of its
\* committed inner transactions give when made on it directly, in program order.
C4_NestedTransactionsCompose ==
    /\ \A i \in 1..Len(txlog) : SubSeq(access, 1, i) = txlog[i].snap
    /\ last.op = "rollback" => View(access) = View(last.snap)
    /\ last.op = "commit" => View(access) = View(Replay(last.log, last.snap))

\* The outer commit into the base space of an outer and a committed inner write.
C4_Witness ==
    /\ last.op = "commit"
    /\ Len(access) = 1
    /\ last.inner > 0
    /\ \E i, j \in 1..Len(last.log) :
          i < j /\ last.log[i].depth = 1 /\ last.log[j].depth = 2
    /\ View(access) # View(last.snap)

\* The outer rollback after an inner commit.
C4_WitnessRollback ==
    /\ last.op = "rollback"
    /\ Len(access) = 1
    /\ last.inner > 0
    /\ last.tx # View(access)

(***************************************************************************)
(* space.rs: Space::collect_garbage, mark and sweep from the roots.        *)
(***************************************************************************)
RECURSIVE Concat(_)
Concat(seqs) == IF seqs = <<>> THEN <<>> ELSE Head(seqs) \o Concat(Tail(seqs))

\* The values of all groups of an attribute list, in iteration order.
AllValues(attributes) == Concat([i \in 1..Len(attributes) |-> attributes[i].values])

\* marked.insert(index, id) at the index binary_search gives: marked stays sorted.
InsertSorted(marked, id) ==
    LET below == SelectSeq(marked, LAMBDA m : m < id)
        above == SelectSeq(marked, LAMBDA m : m > id)
    IN below \o <<id>> \o above

\* A trace loop that does not look into tuples.
RECURSIVE MarkSkipTuples(_, _, _, _)
MarkSkipTuples(trace, marked, objects, steps) ==
    IF trace = <<>>
    THEN [marked |-> marked, steps |-> steps]
    ELSE LET trace_value == trace[Len(trace)]
             rest == SubSeq(trace, 1, Len(trace) - 1)
         IN IF ~IsObject(trace_value) \/ SeqContains(marked, trace_value.id)
            THEN MarkSkipTuples(rest, marked, objects, steps + 1)
            ELSE MarkSkipTuples(
                     IF trace_value.id \in DOMAIN objects
                     THEN rest \o AllValues(objects[trace_value.id]) ELSE rest,
                     InsertSorted(marked, trace_value.id), objects, steps + 1)

\* The 'trace loop: the trace stack is popped from its end; steps counts the
\* iterations of the loop.
RECURSIVE Mark(_, _, _, _)
Mark(trace, marked, objects, steps) ==
    IF trace = <<>>
    THEN [marked |-> marked, steps |-> steps]
    ELSE LET trace_value == trace[Len(trace)]
             rest == SubSeq(trace, 1, Len(trace) - 1)
         IN IF IsTuple(trace_value)
            THEN Mark(rest \o trace_value.items, marked, objects, steps + 1)
            ELSE IF ~IsObject(trace_value)
            THEN Mark(rest, marked, objects, steps + 1)
            ELSE IF SeqContains(marked, trace_value.id)
            THEN Mark(rest, marked, objects, steps + 1)
            ELSE Mark(IF trace_value.id \in DOMAIN objects
                      THEN rest \o AllValues(objects[trace_value.id]) ELSE rest,
                      InsertSorted(marked, trace_value.id), objects, steps + 1)

\* A sweep count that counts the objects kept.
SweepCountKept(space, marked) ==
    LET kept == MapRetain(space.objects, {marked[i] : i \in 1..Len(marked)})
    IN [space |-> [space EXCEPT !.objects = kept], count |-> Cardinality(DOMAIN kept)]

\* objects.retain(marked) and orig_len - objects.len().
Sweep(space, marked) ==
    LET kept == MapRetain(space.objects, {marked[i] : i \in 1..Len(marked)})
    IN [space |-> [space EXCEPT !.objects = kept],
        count |-> Cardinality(DOMAIN space.objects) - Cardinality(DOMAIN kept)]

\* Space::collect_garbage: [space, count, steps].
collect_garbage(space) ==
    LET roots == [i \in 1..Len(space.roots) |-> ValueObject(space.roots[i])]
        m == Mark(roots, <<>>, space.objects, 0)
        r == Sweep(space, m.marked)
    IN [space |-> r.space, count |-> r.count, steps |-> m.steps]

\* collect_garbage takes &mut Space: no transaction is open.
CollectGarbage ==
    /\ Len(access) = 1
    /\ LET r == collect_garbage(access[1])
       IN /\ access' = <<r.space>>
          /\ last' = [NoLast EXCEPT !.op = "gc", !.count = r.count, !.steps = r.steps,
                                    !.snap = access]
    /\ UNCHANGED <<OBJECT_ID_SEQUENCE, txlog, nwrites, ntx, run>>

GcNames == {"y"}
\* Object references, bare and inside tuples at depth one and two.
GcValues ==
    {ValueInt(1)}
    \cup {ValueObject(i) : i \in KnownIds}
    \cup {ValueTuple(<<ValueObject(i)>>) : i \in KnownIds}
    \cup {ValueTuple(<<ValueInt(1), ValueTuple(<<ValueObject(i)>>)>>) : i \in KnownIds}

\* Root 1 refers to 2, 2 refers back to 1 from inside a nested tuple, and 3
\* refers to itself without being reachable from a root.
SpaceWithCycles ==
    [roots |-> <<1>>,
     objects |-> [i \in {1, 2, 3} |->
        CASE i = 1 -> <<[name |-> "x", values |-> <<ValueInt(1), ValueObject(2)>>]>>
          [] i = 2 -> <<[name |-> "x", values |->
                            <<ValueTuple(<<ValueInt(1), ValueTuple(<<ValueObject(1)>>)>>)>>]>>
          [] i = 3 -> <<[name |-> "x", values |-> <<ValueObject(3)>>]>>]]

InitGC ==
    /\ \/ access = <<SpaceNew>> /\ OBJECT_ID_SEQUENCE = 1
       \/ access = <<SpaceWithCycles>> /\ OBJECT_ID_SEQUENCE = 4
    /\ txlog = <<>>
    /\ nwrites = 0
    /\ ntx = 0
    /\ last = NoLast
    /\ run = NoRun

NextGC ==
    \/ CreateObject(MaxGcWrites)
    \/ CreateRootId(MaxGcWrites)
    \/ RegisterRootOp(MaxGcWrites)
    \/ UnregisterRootOp(MaxGcWrites)
    \/ AddOp(GcNames, GcValues, MaxGcWrites)
    \/ RemoveSingleOp({"x"}, {ValueObject(i) : i \in KnownIds}, MaxGcWrites)
    \/ CollectGarbage

SpecGC == InitGC /\ [][NextGC]_vars

\* The Ids that a value refers to, at any depth inside tuples.
RECURSIVE RefsOfValue(_)
RefsOfValue(v) ==
    IF IsObject(v) THEN {v.id}
    ELSE IF IsTuple(v) THEN UNION {RefsOfValue(v.items[i]) : i \in 1..Len(v.items)}
    ELSE {}

RefsOfObject(space, id) ==
    IF id \in DOMAIN space.objects
    THEN UNION {RefsOfValue(AllValues(space.objects[id])[i]) :
                   i \in 1..Len(AllValues(space.objects[id]))}
    ELSE {}

\* The least set of Ids that holds the roots and is closed under reference.
RECURSIVE Closure(_, _)
Closure(space, ids) ==
    LET more == ids \cup UNION {RefsOfObject(space, id) : id \in ids}
    IN IF more = ids THEN ids ELSE Closure(space, more)

Reachable(space) == Closure(space, {space.roots[i] : i \in 1..Len(space.roots)})

\* The number of values of a space, tuple items counted at every depth.
RECURSIVE ValueSize(_)
RECURSIVE SumSizes(_)
ValueSize(v) == IF IsTuple(v) THEN 1 + SumSizes(v.items) ELSE 1
SumSizes(values) ==
    IF values = <<>> THEN 0 ELSE ValueSize(Head(values)) + SumSizes(Tail(values))

RECURSIVE SpaceSize(_, _)
SpaceSize(space, ids) ==
    IF ids = {} THEN 0
    ELSE LET id == CHOOSE i \in ids : TRUE
         IN SumSizes(AllValues(space.objects[id])) + SpaceSize(space, ids \ {id})

\* C5: after collect_garbage every object reachable from a root, through
\* attribute values and tuples at any depth and through cycles, has its entry
\* and attributes unchanged, every other entry is gone, the roots are kept,
\* and the trace loop ends within one iteration per root and per value.
C5_GarbageCollectionKeepsReachable ==
    last.op = "gc" =>
        LET pre == last.snap[1]
            post == access[1]
            reach == Reachable(pre)
        IN /\ post.roots = pre.roots
           /\ DOMAIN post.objects = (DOMAIN pre.objects) \cap reach
           /\ \A id \in DOMAIN post.objects : post.objects[id] = pre.objects[id]
           /\ \A id \in reach : Attributes(access, id) = Attributes(last.snap, id)
           /\ last.steps <= Len(pre.roots) + SpaceSize(pre, DOMAIN pre.objects)

\* A collection over a cycle through a nested tuple that kept an object
\* reachable only through that tuple and removed an object referring to itself.
C5_Witness ==
    /\ last.op = "gc"
    /\ \E a, b \in DOMAIN access[1].objects :
          /\ a # b
          /\ a \in RefsOfObject(access[1], b)
          /\ b \in RefsOfObject(access[1], a)
          /\ \E i \in 1..Len(AllValues(access[1].objects[b])) :
                /\ IsTuple(AllValues(access[1].objects[b])[i])
                /\ a \in RefsOfValue(AllValues(access[1].objects[b])[i])
          /\ ~SeqContains(access[1].roots, b)
    /\ \E c \in DOMAIN last.snap[1].objects :
          /\ c \notin DOMAIN access[1].objects
          /\ c \in RefsOfObject(last.snap[1], c)

\* C6: collect_garbage returns the number of entries it removed, which are
\* the entries of the objects not reachable from a root, and a second
\* collect_garbage right after it returns 0.
C6_GarbageCollectionCount ==
    last.op = "gc" =>
        /\ last.count = Cardinality(DOMAIN last.snap[1].objects)
                            - Cardinality(DOMAIN access[1].objects)
        /\ last.count = Cardinality((DOMAIN last.snap[1].objects) \ Reachable(last.snap[1]))
        /\ collect_garbage(access[1]).count = 0
        /\ collect_garbage(access[1]).space = access[1]

\* A collection that removed some objects and kept others.
C6_Witness ==
    /\ last.op = "gc"
    /\ last.count >= 2
    /\ DOMAIN access[1].objects # {}

(***************************************************************************)
(* compiler/ops.rs: the ops of a compiled rule. Binding indexes and op     *)
(* indexes count from 0 as in the source.                                  *)
(***************************************************************************)
OpEnd == [op |-> "End"]
OpBeginNot(index, sequence_len) ==
    [op |-> "BeginNot", index |-> index, sequence_len |-> sequence_len]
OpEndNot(index) == [op |-> "EndNot", index |-> index]
OpSearchAttributeBinding(binding, attribute, value_binding) ==
    [op |-> "SearchAttributeBinding", binding |-> binding, attribute |-> attribute,
     value_binding |-> value_binding]
OpRequireAttributeBinding(binding, attribute, value_binding) ==
    [op |-> "RequireAttributeBinding", binding |-> binding, attribute |-> attribute,
     value_binding |-> value_binding]
OpRequireAttributeValue(binding, attribute, value) ==
    [op |-> "RequireAttributeValue", binding |-> binding, attribute |-> attribute,
     value |-> value]
OpRequireAttribute(binding, attribute) ==
    [op |-> "RequireAttribute", binding |-> binding, attribute |-> attribute]
OpAssertObjectBinding(binding) == [op |-> "AssertObjectBinding", binding |-> binding]
OpCompareBinding(binding, value) ==
    [op |-> "CompareBinding", binding |-> binding, value |-> value]
CompareBindingOf(binding) == [c |-> "Binding", binding |-> binding]
CompareValueOf(value) == [c |-> "Value", value |-> value]
OpCompare(left, operator, right) ==
    [op |-> "Compare", left |-> left, operator |-> operator, right |-> right]
OpCalculation(binding, operation) ==
    [op |-> "Calculation", binding |-> binding, operation |-> operation]

CalcValue(value) == [calc |-> "Value", value |-> value]
CalcBinding(binding) == [calc |-> "Binding", binding |-> binding]
CalcBinOp(operator, left, right) ==
    [calc |-> "BinOp", operator |-> operator, left |-> left, right |-> right]

ApplyCreateObject(binding) == [op |-> "CreateObject", binding |-> binding]
ApplyAddBindingAttribute(binding, attribute, value_binding) ==
    [op |-> "AddBindingAttribute", binding |-> binding, attribute |-> attribute,
     value_binding |-> value_binding]
ApplyRemoveBindingAttribute(binding, attribute, value_binding, mode) ==
    [op |-> "RemoveBindingAttribute", binding |-> binding, attribute |-> attribute,
     value_binding |-> value_binding, mode |-> mode]
ApplyAddValueAttribute(binding, attribute, value) ==
    [op |-> "AddValueAttribute", binding |-> binding, attribute |-> attribute,
     value |-> value]
ApplyRemoveValueAttribute(binding, attribute, value, mode) ==
    [op |-> "RemoveValueAttribute", binding |-> binding, attribute |-> attribute,
     value |-> value, mode |-> mode]
ApplyConditional(condition, then_apply, otherwise_apply) ==
    [op |-> "Conditional", condition |-> condition, then_apply |-> then_apply,
     otherwise_apply |-> otherwise_apply]

CompiledRule(name, bindings_len, ops, apply_ops) ==
    [name |-> name, bindings_len |-> bindings_len, ops |-> ops, apply_ops |-> apply_ops]

(***************************************************************************)
(* runtime.rs: the search machine.                                         *)
(***************************************************************************)
Bound(bindings, binding) == bindings[binding + 1]
SetBound(bindings, binding, value) == [bindings EXCEPT ![binding + 1] = value]

\* The range of Value::Int, scaled down from i64: MaxInt stands for i64::MAX.
InIntRange(n) == -MaxInt - 1 <= n /\ n <= MaxInt

\* i64 division truncates toward zero.
TruncDiv(a, b) ==
    IF (a >= 0) = (b > 0)
    THEN (IF a >= 0 THEN a ELSE -a) \div (IF b > 0 THEN b ELSE -b)
    ELSE -((IF a >= 0 THEN a ELSE -a) \div (IF b > 0 THEN b ELSE -b))

None == [some |-> FALSE]
Some(value) == [some |-> TRUE, value |-> value]

\* Arithmetic on two Value::Int that wraps around at the ends of the range.
WrappingInt(operator, left, right) ==
    IF operator = "Div" /\ right = 0
    THEN None
    ELSE LET n == CASE operator = "Add" -> left + right
                    [] operator = "Sub" -> left - right
                    [] operator = "Mul" -> left * right
                    [] operator = "Div" -> TruncDiv(left, right)
         IN Some(ValueInt(((n + MaxInt + 1) % (2 * MaxInt + 2)) - MaxInt - 1))

\* checked_add, checked_sub, checked_mul, checked_div on two Value::Int.
CheckedInt(operator, left, right) ==
    IF operator = "Div" /\ right = 0
    THEN None
    ELSE LET n == CASE operator = "Add" -> left + right
                    [] operator = "Sub" -> left - right
                    [] operator = "Mul" -> left * right
                    [] operator = "Div" -> TruncDiv(left, right)
         IN IF InIntRange(n) THEN Some(ValueInt(n)) ELSE None

\* The operators of f64 on two Value::Float; a division by 0.0 gives None.
FloatOp(operator, left, right) ==
    CASE operator = "Add" ->
            Some(ValueFloat(left.num * right.den + right.num * left.den, left.den * right.den))
      [] operator = "Sub" ->
            Some(ValueFloat(left.num * right.den - right.num * left.den, left.den * right.den))
      [] operator = "Mul" -> Some(ValueFloat(left.num * right.num, left.den * right.den))
      [] operator = "Div" ->
            IF right.num # 0
            THEN Some(ValueFloat(left.num * right.den, left.den * right.num))
            ELSE None

\* unify_numeric_types: an Int next to a Float becomes a Float.
unify_numeric_types(left, right) ==
    IF left.t = "int" /\ right.t = "float" THEN <<ValueFloat(left.n, 1), right>>
    ELSE IF left.t = "float" /\ right.t = "int" THEN <<left, ValueFloat(right.n, 1)>>
    ELSE <<left, right>>

\* The match on the operator and the unified operands.
UnifiedOp(operator, left, right) ==
    IF left.t = "int" /\ right.t = "int" THEN CheckedInt(operator, left.n, right.n)
    ELSE IF left.t = "float" /\ right.t = "float" THEN FloatOp(operator, left, right)
    ELSE None

\* The operator on two evaluated operands ([some, value] each).
perform_operator(operator, left, right) ==
    IF ~left.some \/ ~right.some THEN None
    ELSE UnifiedOp(operator, unify_numeric_types(left.value, right.value)[1],
                   unify_numeric_types(left.value, right.value)[2])

RECURSIVE perform_calculation(_, _)
perform_calculation(bindings, calc) ==
    CASE calc.calc = "Value" -> Some(calc.value)
      [] calc.calc = "Binding" -> Some(Bound(bindings, calc.binding))
      [] calc.calc = "BinOp" ->
            perform_operator(calc.operator,
                             perform_calculation(bindings, calc.left),
                             perform_calculation(bindings, calc.right))

FrameIter(iter, binding, continue_op_index) ==
    [kind |-> "Iter", iter |-> iter, binding |-> binding,
     continue_op_index |-> continue_op_index]
FrameNotScope(index, continue_ok) ==
    [kind |-> "NotScope", index |-> index, continue_ok |-> continue_ok]

\* The attributes of the object a binding holds: [some, value], None when
\* the binding holds no object.
BoundAttributes(acc, bindings, binding) ==
    IF IsObject(Bound(bindings, binding))
    THEN Some(Attributes(acc, Bound(bindings, binding).id))
    ELSE None

\* frames.iter().position(NotScope with this index), counted from 1; 0 for None.
NotScopePosition(frames, index) ==
    LET hits == {i \in 1..Len(frames) :
                    frames[i].kind = "NotScope" /\ frames[i].index = index}
    IN IF hits = {} THEN 0 ELSE CHOOSE i \in hits : \A j \in hits : i <= j

\* An EndNot that leaves the frame of its scope on the stack.
TruncateFramesKeepScope(bindings, frames, frame_index) ==
    IF frame_index = 0
    THEN [flow |-> "NextBranch", bindings |-> bindings, frames |-> frames, panic |-> TRUE]
    ELSE [flow |-> "NextBranch", bindings |-> bindings, panic |-> FALSE,
          frames |-> SubSeq(frames, 1, frame_index)]

\* An EndNot that drops every frame of the stack.
TruncateFramesAll(bindings, frames, frame_index) ==
    IF frame_index = 0
    THEN [flow |-> "NextBranch", bindings |-> bindings, frames |-> frames, panic |-> TRUE]
    ELSE [flow |-> "NextBranch", bindings |-> bindings, panic |-> FALSE, frames |-> <<>>]

\* Op::EndNot once the frame of its scope is found: the frames from it on
\* are dropped and the branch fails; no such frame is a panic.
TruncateFrames(bindings, frames, frame_index) ==
    IF frame_index = 0
    THEN [flow |-> "NextBranch", bindings |-> bindings, frames |-> frames, panic |-> TRUE]
    ELSE [flow |-> "NextBranch", bindings |-> bindings, panic |-> FALSE,
          frames |-> SubSeq(frames, 1, frame_index - 1)]

\* Op::Calculation once the operation is evaluated: the value is stored in
\* the binding, and no value fails the branch.
StoreCalculation(op, bindings, frames, value) ==
    IF value.some
    THEN [flow |-> "NextOp", frames |-> frames, panic |-> FALSE,
          bindings |-> SetBound(bindings, op.binding, value.value)]
    ELSE [flow |-> "NextBranch", bindings |-> bindings, frames |-> frames, panic |-> FALSE]

\* CompareValue::resolve
resolve(cv, bindings) == IF cv.c = "Binding" THEN Bound(bindings, cv.binding) ELSE cv.value

\* The match on the ordering and the operator of Op::Compare. The model has
\* no floats, so unify_numeric_types hands both values back as they are.
CompareMatched(operator, cmp) ==
    CASE cmp = "Equal" -> operator \in {"Equal", "LessOrEqual", "GreaterOrEqual"}
      [] cmp = "Less" -> operator \in {"Less", "LessOrEqual", "NotEqual"}
      [] cmp = "Greater" -> operator \in {"Greater", "GreaterOrEqual", "NotEqual"}

\* One op of the search: the flow it asks for, with the bindings and frames
\* it leaves. panic: an expect() or an index out of range.
ExecOp(op, acc, bindings, frames, op_index) ==
    LET flow(ok) == [flow |-> IF ok THEN "NextOp" ELSE "NextBranch",
                     bindings |-> bindings, frames |-> frames, panic |-> FALSE]
    IN CASE op.op = "AssertObjectBinding" ->
              flow(IsObject(Bound(bindings, op.binding)))
         [] op.op = "RequireAttributeBinding" ->
              flow(BoundAttributes(acc, bindings, op.binding).some
                   /\ AttrHas(BoundAttributes(acc, bindings, op.binding).value,
                              op.attribute, Bound(bindings, op.value_binding)))
         [] op.op = "RequireAttributeValue" ->
              flow(BoundAttributes(acc, bindings, op.binding).some
                   /\ AttrHas(BoundAttributes(acc, bindings, op.binding).value,
                              op.attribute, op.value))
         [] op.op = "RequireAttribute" ->
              flow(BoundAttributes(acc, bindings, op.binding).some
                   /\ AttrHasNamed(BoundAttributes(acc, bindings, op.binding).value,
                                   op.attribute))
         [] op.op = "CompareBinding" ->
              flow(ValueEq(Bound(bindings, op.binding), op.value))
         [] op.op = "SearchAttributeBinding" ->
              IF IsObject(Bound(bindings, op.binding))
              THEN [flow |-> "NextBranch", bindings |-> bindings, panic |-> FALSE,
                    frames |-> Append(frames, FrameIter(
                        AttrIterNamed(Attributes(acc, Bound(bindings, op.binding).id),
                                      op.attribute),
                        op.value_binding, op_index + 1))]
              ELSE flow(FALSE)
         [] op.op = "Compare" ->
              flow(CompareMatched(op.operator,
                      value_compare(resolve(op.left, bindings), resolve(op.right, bindings))))
         [] op.op = "Calculation" ->
              StoreCalculation(op, bindings, frames,
                               perform_calculation(bindings, op.operation))
         [] op.op = "BeginNot" ->
              [flow |-> "NextOp", bindings |-> bindings, panic |-> FALSE,
               frames |-> Append(frames,
                             FrameNotScope(op.index, op_index + op.sequence_len + 1))]
         [] op.op = "EndNot" ->
              TruncateFrames(bindings, frames, NotScopePosition(frames, op.index))

SearchResult(ret, st, panic) ==
    [ret |-> ret, bindings |-> st.bindings, ends |-> st.ends, panic |-> panic]

\* search_bindings: the loop from a machine state st = [op_index, frames,
\* bindings, ends]; control is what the callback answers at End, and ends
\* collects the bindings the callback was called with.
RECURSIVE SearchLoop(_, _, _, _)
RECURSIVE NextBranch(_, _, _, _)
RECURSIVE AfterOp(_, _, _, _, _)
RECURSIVE AfterFrame(_, _, _, _, _, _)
SearchLoop(ops, acc, st, control) ==
    IF st.op_index >= Len(ops)
    THEN SearchResult(FALSE, st, TRUE)
    ELSE IF ops[st.op_index + 1].op = "End"
    THEN IF control = "Stop"
         THEN SearchResult(TRUE, [st EXCEPT !.ends = Append(@, st.bindings)], FALSE)
         ELSE NextBranch(ops, acc, [st EXCEPT !.ends = Append(@, st.bindings)], control)
    ELSE AfterOp(ops, acc, st, control,
                 ExecOp(ops[st.op_index + 1], acc, st.bindings, st.frames, st.op_index))

\* The flow control after an op, r being what ExecOp returned.
AfterOp(ops, acc, st, control, r) ==
    IF r.panic
    THEN SearchResult(FALSE, [st EXCEPT !.bindings = r.bindings, !.frames = r.frames], TRUE)
    ELSE IF r.flow = "NextOp"
    THEN SearchLoop(ops, acc,
             [st EXCEPT !.bindings = r.bindings, !.frames = r.frames, !.op_index = @ + 1],
             control)
    ELSE NextBranch(ops, acc, [st EXCEPT !.bindings = r.bindings, !.frames = r.frames],
                    control)

NextBranch(ops, acc, st, control) ==
    IF st.frames = <<>>
    THEN SearchResult(FALSE, st, FALSE)
    ELSE AfterFrame(ops, acc, st, control, st.frames[Len(st.frames)],
                    SubSeq(st.frames, 1, Len(st.frames) - 1))

\* A NextBranch that takes the candidates of an iteration from the end.
AfterFrameLast(ops, acc, st, control, frame, popped) ==
    IF frame.kind = "NotScope"
    THEN SearchLoop(ops, acc,
             [st EXCEPT !.op_index = frame.continue_ok, !.frames = popped], control)
    ELSE IF frame.iter # <<>>
    THEN SearchLoop(ops, acc,
             [st EXCEPT !.bindings = SetBound(@, frame.binding, frame.iter[Len(frame.iter)]),
                        !.op_index = frame.continue_op_index,
                        !.frames = Append(popped,
                            [frame EXCEPT !.iter = SubSeq(@, 1, Len(@) - 1)])],
             control)
    ELSE NextBranch(ops, acc, [st EXCEPT !.frames = popped], control)

\* NextBranch on the last frame, popped being the frames below it.
AfterFrame(ops, acc, st, control, frame, popped) ==
    IF frame.kind = "NotScope"
    THEN SearchLoop(ops, acc,
             [st EXCEPT !.op_index = frame.continue_ok, !.frames = popped], control)
    ELSE IF frame.iter # <<>>
    THEN SearchLoop(ops, acc,
             [st EXCEPT !.bindings = SetBound(@, frame.binding, Head(frame.iter)),
                        !.op_index = frame.continue_op_index,
                        !.frames = Append(popped, [frame EXCEPT !.iter = Tail(@)])],
             control)
    ELSE NextBranch(ops, acc, [st EXCEPT !.frames = popped], control)

search_bindings(ops, acc, bindings, control) ==
    SearchLoop(ops, acc,
               [op_index |-> 0, frames |-> <<>>, bindings |-> bindings, ends |-> <<>>],
               control)

find_first_bindings(ops, acc, bindings) == search_bindings(ops, acc, bindings, "Stop")

(***************************************************************************)
(* runtime.rs: applying the changes of a rule and attempting a firing.     *)
(***************************************************************************)
ApplyCreateTuple(binding, items) ==
    [op |-> "CreateTuple", binding |-> binding, items |-> items]
ApplyTupleItemValue(value) == [item |-> "Value", value |-> value]
ApplyTupleItemBinding(binding) == [item |-> "Binding", binding |-> binding]

ApplyResult(ret, acc, bindings, idseq, panic) ==
    [ret |-> ret, acc |-> acc, bindings |-> bindings, idseq |-> idseq, panic |-> panic]

\* apply_changes: the ops in order on the access; false at the first op whose
\* target binding holds no object or whose Required removal removes nothing.
\* idseq is the Id counter create_id draws from.
RECURSIVE apply_changes(_, _, _, _)
RECURSIVE ApplyRemoved(_, _, _, _, _)
RECURSIVE ApplyRemove(_, _, _, _, _)
RECURSIVE ApplyAdd(_, _, _, _, _)
RECURSIVE ApplyBranch(_, _, _, _)
RECURSIVE ApplyCreate(_, _, _, _)
apply_changes(apply_ops, acc, bindings, idseq) ==
    IF apply_ops = <<>> THEN ApplyResult(TRUE, acc, bindings, idseq, FALSE)
    ELSE CASE Head(apply_ops).op = "CreateObject" ->
                ApplyCreate(apply_ops, acc, bindings, idseq)
           [] Head(apply_ops).op = "CreateTuple" ->
                apply_changes(Tail(apply_ops), acc,
                    SetBound(bindings, Head(apply_ops).binding,
                        ValueTuple([i \in 1..Len(Head(apply_ops).items) |->
                            IF Head(apply_ops).items[i].item = "Value"
                            THEN Head(apply_ops).items[i].value
                            ELSE Bound(bindings, Head(apply_ops).items[i].binding)])),
                    idseq)
           [] Head(apply_ops).op = "AddBindingAttribute" ->
                ApplyAdd(apply_ops, acc, bindings, idseq,
                         Bound(bindings, Head(apply_ops).value_binding))
           [] Head(apply_ops).op = "RemoveBindingAttribute" ->
                ApplyRemove(apply_ops, acc, bindings, idseq,
                            Bound(bindings, Head(apply_ops).value_binding))
           [] Head(apply_ops).op = "AddValueAttribute" ->
                ApplyAdd(apply_ops, acc, bindings, idseq, Head(apply_ops).value)
           [] Head(apply_ops).op = "RemoveValueAttribute" ->
                ApplyRemove(apply_ops, acc, bindings, idseq, Head(apply_ops).value)
           [] Head(apply_ops).op = "Conditional" ->
                ApplyBranch(apply_ops, bindings,
                    find_first_bindings(Head(apply_ops).condition, acc, bindings),
                    apply_changes(
                        IF find_first_bindings(Head(apply_ops).condition, acc, bindings).ret
                        THEN Head(apply_ops).then_apply
                        ELSE Head(apply_ops).otherwise_apply,
                        acc, bindings, idseq))

\* A CreateObject that reads the Id counter and leaves it as it is.
ApplyCreateSameId(apply_ops, acc, bindings, idseq) ==
    apply_changes(Tail(apply_ops), acc,
        SetBound(bindings, Head(apply_ops).binding, ValueObject(idseq)), idseq)

\* A CreateObject op: create_id takes the value of the Id counter and
\* advances it, and the binding holds the new object.
ApplyCreate(apply_ops, acc, bindings, idseq) ==
    apply_changes(Tail(apply_ops), acc,
        SetBound(bindings, Head(apply_ops).binding, ValueObject(idseq)), idseq + 1)

\* An add op: the value is added to the attribute of the object the binding
\* holds; no object there fails the application.
ApplyAdd(apply_ops, acc, bindings, idseq, value) ==
    IF IsObject(Bound(bindings, Head(apply_ops).binding))
    THEN apply_changes(Tail(apply_ops),
             AccessAdd(acc, Bound(bindings, Head(apply_ops).binding).id,
                       Head(apply_ops).attribute, value),
             bindings, idseq)
    ELSE ApplyResult(FALSE, acc, bindings, idseq, FALSE)

\* A remove op: one occurrence of the value is removed.
ApplyRemove(apply_ops, acc, bindings, idseq, value) ==
    IF IsObject(Bound(bindings, Head(apply_ops).binding))
    THEN ApplyRemoved(apply_ops, bindings, idseq,
             AccessRemoveSingle(acc, Bound(bindings, Head(apply_ops).binding).id,
                                Head(apply_ops).attribute, value),
             Head(apply_ops).mode)
    ELSE ApplyResult(FALSE, acc, bindings, idseq, FALSE)

\* After remove_single returned r: nothing removed fails a Required removal.
ApplyRemoved(apply_ops, bindings, idseq, r, mode) ==
    IF ~r.removed /\ mode = "Required"
    THEN ApplyResult(FALSE, r.acc, bindings, idseq, FALSE)
    ELSE apply_changes(Tail(apply_ops), r.acc, bindings, idseq)

\* After the branch of a Conditional returned r, cond being the outcome of
\* the search for its condition on a copy of the bindings.
ApplyBranch(apply_ops, bindings, cond, r) ==
    IF cond.panic THEN ApplyResult(FALSE, r.acc, bindings, r.idseq, TRUE)
    ELSE IF ~r.ret THEN r
    ELSE apply_changes(Tail(apply_ops), r.acc, r.bindings, r.idseq)

\* The transaction of an attempt ends: applied is what apply_changes left
\* in it, some whether the body hands the transaction back.
AttemptEnd(applied, some) ==
    [ret |-> TransactionEnd(applied.acc, some).ret,
     acc |-> TransactionEnd(applied.acc, some).acc,
     bindings |-> applied.bindings, idseq |-> applied.idseq, panic |-> applied.panic]

\* The body of the transaction after the search returned found.
AttemptApply(rule, tx, found, idseq) ==
    IF found.ret
    THEN apply_changes(rule.apply_ops, tx, found.bindings, idseq)
    ELSE ApplyResult(FALSE, tx, found.bindings, idseq, found.panic)

\* A firing attempt that hands the transaction back whenever the search
\* succeeded, whether or not the changes applied.
KeepPartial(applied, found) ==
    [AttemptEnd(applied, found.ret) EXCEPT !.panic = found.panic]
attempt_rule_firing_keep_partial(rule, acc, bindings, idseq) ==
    KeepPartial(AttemptApply(rule, TransactionNew(acc),
                    find_first_bindings(rule.ops, TransactionNew(acc), bindings), idseq),
                find_first_bindings(rule.ops, TransactionNew(acc), bindings))

\* Some(tx) only when the search and the application both succeeded.
AttemptBody(applied) == AttemptEnd(applied, applied.ret)

\* A firing attempt that goes on to the next satisfying assignment when the
\* changes do not apply for one, as the streaming searches do.
attempt_rule_firing_retry(rule, acc, bindings, idseq) ==
    LET ends == search_bindings(rule.ops, TransactionNew(acc), bindings, "Continue").ends
        ok == {i \in DOMAIN ends :
                  apply_changes(rule.apply_ops, TransactionNew(acc), ends[i], idseq).ret}
    IN  IF ok = {}
        THEN AttemptBody(AttemptApply(rule, TransactionNew(acc),
                 find_first_bindings(rule.ops, TransactionNew(acc), bindings), idseq))
        ELSE AttemptBody(apply_changes(rule.apply_ops, TransactionNew(acc),
                 ends[CHOOSE i \in ok : \A j \in ok : i <= j], idseq))

\* attempt_rule_firing: search and apply inside one transaction of the access.
attempt_rule_firing(rule, acc, bindings, idseq) ==
    AttemptBody(AttemptApply(rule, TransactionNew(acc),
                    find_first_bindings(rule.ops, TransactionNew(acc), bindings), idseq))

(***************************************************************************)
(* system.rs: a system, its rules and the three firing strategies.         *)
(***************************************************************************)
SystemNew(name, input_variables) ==
    [name |-> name, input_variables |-> input_variables,
     max_binding_len |-> Len(input_variables), rules |-> <<>>]

DuplicateRuleName(system_name, rule_name) ==
    [kind |-> "DuplicateRuleName", system |-> system_name, rule |-> rule_name]

\* A load that raises the max binding count before it looks for the name.
load_max_first(system, rule) ==
    IF \E i \in 1..Len(system.rules) : system.rules[i].name = rule.name
    THEN [ok |-> FALSE, err |-> DuplicateRuleName(system.name, rule.name),
          system |-> [system EXCEPT
              !.max_binding_len = IF rule.bindings_len > @ THEN rule.bindings_len ELSE @]]
    ELSE [ok |-> TRUE, err |-> [kind |-> "none"],
          system |-> [system EXCEPT
              !.max_binding_len = IF rule.bindings_len > @ THEN rule.bindings_len ELSE @,
              !.rules = Append(@, rule)]]

\* System::load: [ok, err, system], system being the system afterwards.
load(system, rule) ==
    IF \E i \in 1..Len(system.rules) : system.rules[i].name = rule.name
    THEN [ok |-> FALSE, err |-> DuplicateRuleName(system.name, rule.name), system |-> system]
    ELSE [ok |-> TRUE, err |-> [kind |-> "none"],
          system |-> [system EXCEPT
              !.max_binding_len = IF rule.bindings_len > @ THEN rule.bindings_len ELSE @,
              !.rules = Append(@, rule)]]

\* SystemLoader::load_str for one system: the rules are loaded in order.
RECURSIVE load_str(_, _)
load_str(system, rules) ==
    IF rules = <<>> THEN system
    ELSE load_str(load(system, Head(rules)).system, Tail(rules))

\* A verify_inputs that lets too few inputs pass.
verify_inputs_at_most(system, inputs) ==
    IF Len(inputs) <= Len(system.input_variables)
    THEN [ok |-> TRUE]
    ELSE [ok |-> FALSE,
          err |-> [kind |-> "InvalidInputArgumentLen",
                   expected |-> Len(system.input_variables), received |-> Len(inputs)]]

verify_inputs(system, inputs) ==
    IF Len(inputs) = Len(system.input_variables)
    THEN [ok |-> TRUE]
    ELSE [ok |-> FALSE,
          err |-> [kind |-> "InvalidInputArgumentLen",
                   expected |-> Len(system.input_variables), received |-> Len(inputs)]]

\* make_bindings_storage: the inputs as objects, the other slots Int(0).
make_bindings_storage(system, inputs) ==
    LET v == verify_inputs(system, inputs)
    IN IF v.ok
       THEN [ok |-> TRUE,
             bindings |-> [i \in 1..system.max_binding_len |->
                              IF i <= Len(inputs) THEN ValueObject(inputs[i])
                              ELSE ValueInt(0)]]
       ELSE v

ResultSome(name) == [kind |-> "Some", name |-> name]
ResultNone == [kind |-> "None"]
ResultOk(count) == [kind |-> "Ok", count |-> count]
ResultStopped(count) == [kind |-> "Stopped", count |-> count]

CurrentRule(rn) == rn.system.rules[rn.rule_index + 1]

\* The for loop moves on to the next rule, or ends with the given result.
NextRule(rn, result) ==
    IF rn.rule_index + 1 < Len(rn.system.rules)
    THEN [rn EXCEPT !.rule_index = @ + 1]
    ELSE [rn EXCEPT !.pc = "done", !.result = result]

\* A run_to_first that goes through all the rules.
run_to_first_all(rn, rule_fired) ==
    NextRule(rn, IF rule_fired THEN ResultSome(CurrentRule(rn).name) ELSE ResultNone)

\* run_to_first after one attempt.
run_to_first_step(rn, rule_fired) ==
    IF rule_fired
    THEN [rn EXCEPT !.pc = "done", !.result = ResultSome(CurrentRule(rn).name)]
    ELSE NextRule(rn, ResultNone)

(***************************************************************************)
(* The control callbacks. A callback is a record of its kind and of what   *)
(* its closure holds; AnyControl is a callback of the caller, free in its  *)
(* answers.                                                                *)
(***************************************************************************)
AnyControl == [kind |-> "any"]

\* The callback of the runs without control: |_, _, _| RuntimeControl::Continue.
AlwaysContinue == [kind |-> "continue"]

LimitTotal(total_limit) == [kind |-> "limit_total", total_limit |-> total_limit]
LimitPerRule(per_rule_limit) ==
    [kind |-> "limit_per_rule", per_rule_limit |-> per_rule_limit,
     per_rule_counts |-> <<>>]
LimitTotalAndPerRule(total_limit, per_rule_limit) ==
    [kind |-> "limit_total_and_per_rule", total_limit |-> total_limit,
     per_rule_limit |-> per_rule_limit, per_rule_counts |-> <<>>]

\* A control_limit_total that stops once the count is over the limit.
control_limit_total_over(total_limit, total_count) ==
    IF total_count > total_limit THEN "Stop" ELSE "Continue"

\* The closure of control_limit_total: its answer to a call.
control_limit_total(total_limit, total_count) ==
    IF total_count >= total_limit THEN "Stop" ELSE "Continue"

\* per_rule_counts.entry(name).or_insert(0), then += 1. The map is a function
\* on the names it holds.
CountRule(per_rule_counts, name) ==
    [n \in (DOMAIN per_rule_counts) \cup {name} |->
        IF n = name
        THEN (IF name \in DOMAIN per_rule_counts THEN per_rule_counts[name] ELSE 0) + 1
        ELSE per_rule_counts[n]]

\* A control_limit_per_rule that keeps one count for all names.
control_limit_per_rule_shared(per_rule_limit, per_rule_counts, name) ==
    [control |-> IF CountRule(per_rule_counts, "")[""] >= per_rule_limit
                 THEN "Stop" ELSE "Continue",
     per_rule_counts |-> CountRule(per_rule_counts, "")]

\* The closure of control_limit_per_rule: [control, per_rule_counts], its
\* answer to a call and the counts it holds afterwards.
control_limit_per_rule(per_rule_limit, per_rule_counts, name) ==
    [control |-> IF CountRule(per_rule_counts, name)[name] >= per_rule_limit
                 THEN "Stop" ELSE "Continue",
     per_rule_counts |-> CountRule(per_rule_counts, name)]

\* The closure of control_limit_total_and_per_rule: the per-rule callback is
\* asked only when the total callback answers Continue.
control_limit_total_and_per_rule(total_limit, per_rule_limit, per_rule_counts, name, total_count) ==
    IF control_limit_total(total_limit, total_count) = "Continue"
    THEN control_limit_per_rule(per_rule_limit, per_rule_counts, name)
    ELSE [control |-> "Stop", per_rule_counts |-> per_rule_counts]

\* The callback after a call with this name and count.
ControlCalled(control, name, count) ==
    CASE control.kind = "limit_per_rule" ->
            [control EXCEPT !.per_rule_counts =
                control_limit_per_rule(control.per_rule_limit, @, name).per_rule_counts]
      [] control.kind = "limit_total_and_per_rule" ->
            [control EXCEPT !.per_rule_counts =
                control_limit_total_and_per_rule(control.total_limit, control.per_rule_limit,
                                                 @, name, count).per_rule_counts]
      [] OTHER -> control

\* The control callback is called with the rule's name and the run count;
\* control is its answer.
CallControl(rn, name, count, control) ==
    [rn EXCEPT !.calls = Append(@, [name |-> name, count |-> count, control |-> control,
                                    at |-> Len(rn.attempts)]),
               !.control = ControlCalled(@, name, count)]

\* A run_rule_saturation that starts over at the first rule after a firing.
run_rule_saturation_restart(rn, rule_fired, control) ==
    IF rule_fired
    THEN LET counted == [rn EXCEPT !.run_count = @ + 1]
             called == CallControl(counted, CurrentRule(rn).name, counted.run_count, control)
         IN IF control = "Continue"
            THEN [called EXCEPT !.rule_index = 0]
            ELSE [called EXCEPT !.pc = "done", !.result = ResultStopped(counted.run_count)]
    ELSE NextRule(rn, ResultOk(rn.run_count))

\* run_rule_saturation_with_control after one attempt.
run_rule_saturation_step(rn, rule_fired, control) ==
    IF rule_fired
    THEN LET counted == [rn EXCEPT !.run_count = @ + 1]
             called == CallControl(counted, CurrentRule(rn).name, counted.run_count, control)
         IN IF control = "Continue"
            THEN called
            ELSE [called EXCEPT !.pc = "done", !.result = ResultStopped(counted.run_count)]
    ELSE NextRule(rn, ResultOk(rn.run_count))

\* A run_saturation that counts the firing after the callback was called.
run_saturation_count_late(rn, rule_fired, control) ==
    IF rule_fired
    THEN LET called == CallControl(rn, CurrentRule(rn).name, rn.run_count, control)
             counted == [called EXCEPT !.run_count = @ + 1]
         IN IF control = "Continue"
            THEN [counted EXCEPT !.rule_index = 0]
            ELSE [counted EXCEPT !.pc = "done", !.result = ResultStopped(counted.run_count)]
    ELSE NextRule(rn, ResultOk(rn.run_count))

\* run_saturation_with_control after one attempt.
run_saturation_step(rn, rule_fired, control) ==
    IF rule_fired
    THEN LET counted == [rn EXCEPT !.run_count = @ + 1]
             called == CallControl(counted, CurrentRule(rn).name, counted.run_count, control)
         IN IF control = "Continue"
            THEN [called EXCEPT !.rule_index = 0]
            ELSE [called EXCEPT !.pc = "done", !.result = ResultStopped(counted.run_count)]
    ELSE NextRule(rn, ResultOk(rn.run_count))

(***************************************************************************)
(* The rules of the runs, as the compiler emits them for a system with the *)
(* input variables A and B (bindings 0 and 1).                             *)
(***************************************************************************)
\* rule test:add {} do { + $A.out: 23 }
RuleAdd ==
    CompiledRule("add", 2, <<OpEnd>>, <<ApplyAddValueAttribute(0, "out", ValueInt(23))>>)

\* rule test:move { $A.in: $v } do { - $A.in: $v, + $A.out: $v }
RuleMove ==
    CompiledRule("move", 3, <<OpSearchAttributeBinding(0, "in", 2), OpEnd>>,
        <<ApplyRemoveBindingAttribute(0, "in", 2, "Required"),
          ApplyAddBindingAttribute(0, "out", 2)>>)

\* rule test:back { $A.out: $v } do { - $A.out: $v, + $A.in: $v }
RuleBack ==
    CompiledRule("back", 3, <<OpSearchAttributeBinding(0, "out", 2), OpEnd>>,
        <<ApplyRemoveBindingAttribute(0, "out", 2, "Required"),
          ApplyAddBindingAttribute(0, "in", 2)>>)

\* rule test:partial { $A.in: 23 } do { + $A.out: 99, - $A.in: 123 }
RulePartial ==
    CompiledRule("partial", 2, <<OpRequireAttributeValue(0, "in", ValueInt(23)), OpEnd>>,
        <<ApplyAddValueAttribute(0, "out", ValueInt(99)),
          ApplyRemoveValueAttribute(0, "in", ValueInt(123), "Required")>>)

\* rule test:once { not { $A.out: $ } } do { + $A.out: 23 }
RuleOnce ==
    CompiledRule("once", 2,
        <<OpBeginNot(0, 2), OpRequireAttribute(0, "out"), OpEndNot(0), OpEnd>>,
        <<ApplyAddValueAttribute(0, "out", ValueInt(23))>>)

\* rule test:endless {} do {}
RuleEndless == CompiledRule("endless", 2, <<OpEnd>>, <<>>)

\* rule test:create { not { $A.child: $ } } do { + $A.child: { v: 1 } }
RuleCreate ==
    CompiledRule("create", 3,
        <<OpBeginNot(0, 2), OpRequireAttribute(0, "child"), OpEndNot(0), OpEnd>>,
        <<ApplyCreateObject(2), ApplyAddValueAttribute(2, "v", ValueInt(1)),
          ApplyAddBindingAttribute(0, "child", 2)>>)

\* rule test:calc { $A is 5 } do { + $A.out: 1 }
RuleCalc ==
    CompiledRule("calc", 2, <<OpCalculation(0, CalcValue(ValueInt(5))), OpEnd>>,
        <<ApplyAddValueAttribute(0, "out", ValueInt(1))>>)

RulePool ==
    <<RuleAdd, RuleMove, RuleBack, RulePartial, RuleOnce, RuleEndless, RuleCreate, RuleCalc>>

\* The systems of at most MaxRules rules of the pool, each loaded once.
Systems ==
    LET picks == UNION {[1..n -> 1..Len(RulePool)] : n \in 0..MaxRules}
    IN {load_str(SystemNew("test", <<"A", "B">>), [i \in DOMAIN p |-> RulePool[p[i]]]) :
           p \in {q \in picks : \A i, j \in DOMAIN q : i # j => q[i] # q[j]}}

RECURSIVE AddAll(_, _, _, _)
AddAll(acc, object, name, values) ==
    IF values = <<>> THEN acc
    ELSE AddAll(AccessAdd(acc, object, name, Head(values)), object, name, Tail(values))

\* A space with the roots 1 and 2 made by create_root_id, and the given
\* values added to the attribute in of object 1.
RunSpace(values) ==
    AddAll(RegisterRoot(RegisterRoot(<<SpaceNew>>, 1).acc, 2).acc, 1, "in", values)

RunSpaces ==
    {RunSpace(<<>>), RunSpace(<<ValueInt(23)>>), RunSpace(<<ValueInt(23), ValueInt(42)>>)}

Modes == {"to_first", "rule_saturation", "saturation"}
InputChoices == {<<1, 2>>, <<2, 1>>, <<1>>, <<1, 2, 1>>}

IdleRun(system) ==
    [pc |-> "idle", mode |-> "none", system |-> system, inputs |-> <<>>, bindings |-> <<>>,
     rule_index |-> 0, run_count |-> 0, result |-> [kind |-> "none"],
     attempts |-> <<>>, calls |-> <<>>, start |-> <<>>, control |-> AnyControl]

Init ==
    /\ access \in RunSpaces
    /\ OBJECT_ID_SEQUENCE = 3
    /\ txlog = <<>>
    /\ nwrites = 0
    /\ ntx = 0
    /\ last = NoLast
    /\ run \in {IdleRun(system) : system \in Systems}

\* A run is entered: the bindings storage is made, and a system without
\* rules is done at once.
RunEntered(rn, acc, mode, inputs, control) ==
    LET b == make_bindings_storage(rn.system, inputs)
        entered == [rn EXCEPT !.mode = mode, !.inputs = inputs, !.start = acc,
                              !.control = control]
    IN IF ~b.ok
       THEN [entered EXCEPT !.pc = "done", !.result = b.err]
       ELSE IF rn.system.rules = <<>>
       THEN [entered EXCEPT !.pc = "done", !.bindings = b.bindings,
                !.result = IF mode = "to_first" THEN ResultNone ELSE ResultOk(0)]
       ELSE [entered EXCEPT !.pc = "loop", !.bindings = b.bindings]

RunStartWith(modes, controls) ==
    /\ run.pc = "idle"
    /\ \E mode \in modes, inputs \in InputChoices, control \in controls :
          run' = RunEntered(run, access, mode, inputs, control)
    /\ last' = NoLast
    /\ UNCHANGED <<access, OBJECT_ID_SEQUENCE, txlog, nwrites, ntx>>

\* A run with a callback of the caller.
RunStart == RunStartWith(Modes, {AnyControl})

\* The answers the callback of the run may give to a call with this name and
\* count.
ControlAnswers(rn, name, count) ==
    CASE rn.control.kind = "any" ->
            IF count >= MaxFirings THEN {"Stop"} ELSE {"Continue", "Stop"}
      [] rn.control.kind = "continue" -> {"Continue"}
      [] rn.control.kind = "limit_total" ->
            {control_limit_total(rn.control.total_limit, count)}
      [] rn.control.kind = "limit_per_rule" ->
            {control_limit_per_rule(rn.control.per_rule_limit,
                                    rn.control.per_rule_counts, name).control}
      [] rn.control.kind = "limit_total_and_per_rule" ->
            {control_limit_total_and_per_rule(rn.control.total_limit,
                 rn.control.per_rule_limit, rn.control.per_rule_counts, name, count).control}

MaxAttempts == (MaxFirings + 1) * (MaxRules + 1)

\* The most attempts a run with this callback is followed for.
AttemptCap(control) ==
    IF control.kind = "any" THEN MaxAttempts
    ELSE (MaxRules * (MaxLimit + TestLimit) + 2) * (MaxRules + 1)

\* What the strategy of the run does after an attempt.
StrategyStep(rn, rule_fired, control) ==
    CASE rn.mode = "to_first" -> run_to_first_step(rn, rule_fired)
      [] rn.mode = "rule_saturation" -> run_rule_saturation_step(rn, rule_fired, control)
      [] rn.mode = "saturation" -> run_saturation_step(rn, rule_fired, control)

\* The run after an attempt returned r: the bindings are what the attempt
\* left, and the attempt is noted.
Tried(rn, r) ==
    [rn EXCEPT !.bindings = r.bindings,
               !.attempts = Append(@, [rule |-> rn.rule_index, fired |-> r.ret])]

\* The run after an attempt returned r and the callback, if called, answers
\* control.
Attempted(rn, r, control) ==
    IF r.panic
    THEN [Tried(rn, r) EXCEPT !.pc = "done", !.result = [kind |-> "panic"]]
    ELSE StrategyStep(Tried(rn, r), r.ret, control)

\* One pass of a strategy's loop body: the current rule is attempted on the
\* access with the run's bindings, and the strategy decides how to go on.
RunAttempt ==
    /\ run.pc = "loop"
    /\ Len(run.attempts) < AttemptCap(run.control)
    /\ \E r \in {attempt_rule_firing(CurrentRule(run), access, run.bindings,
                                      OBJECT_ID_SEQUENCE)} :
          /\ access' = r.acc
          /\ OBJECT_ID_SEQUENCE' = r.idseq
          /\ last' = [NoLast EXCEPT !.op = "attempt", !.ret = r.ret, !.snap = access,
                         !.arg = [rule |-> CurrentRule(run), bindings |-> run.bindings,
                                  idseq |-> OBJECT_ID_SEQUENCE]]
          /\ \E control \in ControlAnswers(run, CurrentRule(run).name, run.run_count + 1) :
                run' = Attempted(run, r, control)
    /\ UNCHANGED <<txlog, nwrites, ntx>>

\* run_to_first: one rule of the for loop.
RunToFirst ==
    /\ run.mode = "to_first"
    /\ RunAttempt

\* run_rule_saturation_with_control: one pass of the 'current_rule loop.
RunRuleSaturation ==
    /\ run.mode = "rule_saturation"
    /\ RunAttempt

\* run_saturation_with_control: one rule of the for loop inside 'firing.
RunSaturation ==
    /\ run.mode = "saturation"
    /\ RunAttempt

Next ==
    \/ RunStart
    \/ RunToFirst
    \/ RunRuleSaturation
    \/ RunSaturation

Spec == Init /\ [][Next]_vars

(***************************************************************************)
(* The claims about firing attempts and the firing strategies.             *)
(***************************************************************************)
\* The search and the application of the last attempted rule, made directly
\* on the access as it was before the attempt, without a transaction.
DirectFound == find_first_bindings(last.arg.rule.ops, last.snap, last.arg.bindings)
DirectApplied ==
    apply_changes(last.arg.rule.apply_ops, last.snap, DirectFound.bindings, last.arg.idseq)

\* C1: one firing attempt either returns false and leaves the roots and every
\* attribute list of the space as they were, or returns true and the space
\* shows the effects of all apply ops of the rule in order; the effects of a
\* prefix of the apply ops are never left in the space.
C1_AttemptIsAllOrNothing ==
    last.op = "attempt" =>
        IF last.ret
        THEN /\ DirectFound.ret
             /\ DirectApplied.ret
             /\ View(access) = View(DirectApplied.acc)
        ELSE /\ access = last.snap
             /\ ~(DirectFound.ret /\ DirectApplied.ret)

\* An attempt whose search succeeded and whose application changed the
\* transaction before a later apply op failed.
C1_Witness ==
    /\ last.op = "attempt"
    /\ ~last.ret
    /\ DirectFound.ret
    /\ ~DirectApplied.ret
    /\ View(DirectApplied.acc) # View(last.snap)

FiredAttempts(attempts) == {i \in 1..Len(attempts) : attempts[i].fired}

\* A run whose inputs passed verify_inputs.
Running(modes) ==
    /\ run.mode \in modes
    /\ run.pc \in {"loop", "done"}
    /\ run.result.kind # "InvalidInputArgumentLen"

\* C7: run_to_first attempts the rules in declaration order, each once, and
\* ends at the first attempt that fires, returning that rule's name with only
\* that rule's effects in the space; when no attempt fires it returns None
\* and the space is as it was.
C7_RunToFirst ==
    Running({"to_first"}) =>
        LET att == run.attempts
            n == Len(att)
            rules == run.system.rules
        IN /\ \A i \in 1..n : att[i].rule = i - 1
           /\ \A i \in 1..(n - 1) : ~att[i].fired
           /\ run.pc = "loop" => /\ \A i \in 1..n : ~att[i].fired
                                 /\ access = run.start
           /\ run.pc = "done" =>
                 IF n > 0 /\ att[n].fired
                 THEN /\ run.result = ResultSome(rules[n].name)
                      /\ View(access) =
                            View(apply_changes(rules[n].apply_ops, run.start,
                                    find_first_bindings(rules[n].ops, run.start,
                                                        last.arg.bindings).bindings,
                                    last.arg.idseq).acc)
                 ELSE /\ run.result = ResultNone
                      /\ n = Len(rules)
                      /\ access = run.start

\* A run_to_first that ended at its first rule while the second rule, not
\* attempted, fires on the space the run left.
C7_Witness ==
    /\ Running({"to_first"})
    /\ run.pc = "done"
    /\ run.result.kind = "Some"
    /\ Len(run.attempts) = 1
    /\ Len(run.system.rules) = 2
    /\ access # run.start
    /\ attempt_rule_firing(run.system.rules[2], access, run.bindings, OBJECT_ID_SEQUENCE).ret

\* C8: run_rule_saturation attempts the first rule first, attempts the same
\* rule again after a firing and the next rule after a failed attempt, so it
\* never goes back to an earlier rule; Ok(n) comes after the failed attempt of
\* the last rule, n being the number of attempts that fired.
C8_RunRuleSaturation ==
    Running({"rule_saturation"}) =>
        LET att == run.attempts
            n == Len(att)
            rules == run.system.rules
        IN /\ n > 0 => att[1].rule = 0
           /\ \A i \in 1..(n - 1) :
                 att[i + 1].rule = IF att[i].fired THEN att[i].rule ELSE att[i].rule + 1
           /\ run.run_count = Cardinality(FiredAttempts(att))
           /\ (run.pc = "done" /\ run.result.kind = "Ok") =>
                 /\ run.result.count = Cardinality(FiredAttempts(att))
                 /\ IF n = 0 THEN rules = <<>>
                    ELSE ~att[n].fired /\ att[n].rule = Len(rules) - 1

\* A run_rule_saturation that returned Ok after firings of both of its rules
\* while its first rule fires again on the space the run left.
C8_Witness ==
    /\ Running({"rule_saturation"})
    /\ run.pc = "done"
    /\ run.result.kind = "Ok"
    /\ \E i, j \in FiredAttempts(run.attempts) :
          run.attempts[i].rule = 0 /\ run.attempts[j].rule = 1
    /\ attempt_rule_firing(run.system.rules[1], access, run.bindings, OBJECT_ID_SEQUENCE).ret

\* The scan of run_saturation: the first rule is attempted after every firing,
\* the next rule after a failed attempt.
SaturationScan(att) ==
    /\ Len(att) > 0 => att[1].rule = 0
    /\ \A i \in 1..(Len(att) - 1) :
          att[i + 1].rule = IF att[i].fired THEN 0 ELSE att[i].rule + 1

\* The last attempts of the run are one pass over all the rules that fired none.
FinalPass(att, rules) ==
    /\ Len(att) >= Len(rules)
    /\ \A k \in 1..Len(rules) :
          att[Len(att) - Len(rules) + k] = [rule |-> k - 1, fired |-> FALSE]

C10_ControlCallback ==
    Running({"rule_saturation", "saturation"}) =>
        LET att == run.attempts
            calls == run.calls
            m == Len(calls)
        IN /\ m = Cardinality(FiredAttempts(att))
           /\ \A k \in 1..m :
                 /\ calls[k].count = k
                 /\ calls[k].at \in FiredAttempts(att)
                 /\ calls[k].name = run.system.rules[att[calls[k].at].rule + 1].name
                 /\ k < m => calls[k].at < calls[k + 1].at /\ calls[k].control = "Continue"
           /\ run.pc = "loop" => (m > 0 => calls[m].control = "Continue")
           /\ run.pc = "done" =>
                 IF m > 0 /\ calls[m].control = "Stop"
                 THEN /\ run.result = ResultStopped(m)
                      /\ calls[m].at = Len(att)
                      /\ last.op = "attempt" /\ last.ret
                      /\ View(access) = View(DirectApplied.acc)
                 ELSE run.result.kind = "Ok"

\* A run_saturation stopped by the callback at its second call, made for
\* another rule than the first, with failed attempts in between.
C10_Witness ==
    /\ Running({"saturation"})
    /\ run.pc = "done"
    /\ run.result = ResultStopped(2)
    /\ run.calls[1].name # run.calls[2].name
    /\ Len(run.attempts) > 2
    /\ access # run.start

(***************************************************************************)
(* Runs under the control helpers of system.rs.                            *)
(***************************************************************************)
\* rule test:a_to_b {} do { - $A.val: 23, + $B.val: 23 }
RuleAToB ==
    CompiledRule("a_to_b", 2, <<OpEnd>>,
        <<ApplyRemoveValueAttribute(0, "val", ValueInt(23), "Required"),
          ApplyAddValueAttribute(1, "val", ValueInt(23))>>)

\* rule test:b_to_a {} do { - $B.val: 23, + $A.val: 23 }
RuleBToA ==
    CompiledRule("b_to_a", 2, <<OpEnd>>,
        <<ApplyRemoveValueAttribute(1, "val", ValueInt(23), "Required"),
          ApplyAddValueAttribute(0, "val", ValueInt(23))>>)

ControlPool == <<RuleEndless, RuleAToB, RuleBToA>>

\* The systems of at most MaxRules rules of a pool, each loaded once.
SystemsOf(pool) ==
    LET picks == UNION {[1..n -> 1..Len(pool)] : n \in 0..MaxRules}
    IN {load_str(SystemNew("test", <<"A", "B">>), [i \in DOMAIN p |-> pool[p[i]]]) :
           p \in {q \in picks : \A i, j \in DOMAIN q : i # j => q[i] # q[j]}}

\* A space with the roots 1 and 2, and the given values under val of object 1.
ControlSpace(values) ==
    AddAll(RegisterRoot(RegisterRoot(<<SpaceNew>>, 1).acc, 2).acc, 1, "val", values)

ControlSpaces == {ControlSpace(<<>>), ControlSpace(<<ValueInt(23)>>)}

SaturationModes == {"rule_saturation", "saturation"}

LimitControls ==
    {LimitTotal(n) : n \in 1..MaxLimit}
    \cup {LimitPerRule(l) : l \in (1..MaxLimit) \cup {TestLimit}}
    \cup {LimitTotalAndPerRule(n, l) : n \in 1..MaxLimit, l \in 1..MaxLimit}

InitControl ==
    /\ access \in ControlSpaces
    /\ OBJECT_ID_SEQUENCE = 3
    /\ txlog = <<>>
    /\ nwrites = 0
    /\ ntx = 0
    /\ last = NoLast
    /\ run \in {IdleRun(system) : system \in SystemsOf(ControlPool)}

\* A saturation run is entered with one of the control helpers as callback.
RunStartLimited == RunStartWith(SaturationModes, LimitControls)

NextControl ==
    \/ RunStartLimited
    \/ RunRuleSaturation
    \/ RunSaturation

SpecControl == InitControl /\ [][NextControl]_vars

\* The rules of the run's system with this name.
HasRule(rn, name) == \E i \in DOMAIN rn.system.rules : rn.system.rules[i].name = name

\* A run under a control helper, with valid inputs, of a system that holds
\* the endless rule: a rule that can always fire.
EndlessUnder(kind) ==
    /\ run.pc \in {"loop", "done"}
    /\ run.result.kind # "InvalidInputArgumentLen"
    /\ run.control.kind = kind
    /\ HasRule(run, "endless")

\* No pass over the rules goes by without a firing: the attempts made are at
\* most one pass of the rules for each firing, and one more.
FiresOn ==
    Len(run.attempts) <= (Cardinality(FiredAttempts(run.attempts)) + 1) * Len(run.system.rules)

\* C11: a saturation run under control_limit_total(N) of a system holding the
\* endless rule, which can always fire, goes on firing while fewer than N
\* firings were committed, and returns Stopped { count: N } with exactly N
\* committed firings made, for every N >= 1.
C11_LimitTotalStopsAtN ==
    EndlessUnder("limit_total") =>
        /\ FiresOn
        /\ run.run_count = Cardinality(FiredAttempts(run.attempts))
        /\ run.pc = "loop" => run.run_count < run.control.total_limit
        /\ run.pc = "done" =>
              /\ run.result = ResultStopped(run.control.total_limit)
              /\ run.run_count = run.control.total_limit

\* A rule saturation run of the rules a_to_b and endless was stopped at the
\* limit MaxLimit, both rules having fired.
C11_Witness ==
    /\ run.pc = "done"
    /\ run.mode = "rule_saturation"
    /\ run.control = LimitTotal(MaxLimit)
    /\ run.result = ResultStopped(MaxLimit)
    /\ Len(run.system.rules) = 2
    /\ run.system.rules[2].name = "endless"
    /\ run.system.rules[1].name = "a_to_b"
    /\ \E i \in FiredAttempts(run.attempts) : run.attempts[i].rule = 0

\* The firings the rule at this index of the system made in the run.
FiredOf(rn, rule) == Cardinality({i \in FiredAttempts(rn.attempts) : rn.attempts[i].rule = rule})

RuleIndexes(rn) == 0..(Len(rn.system.rules) - 1)

\* The last attempt of the run fired and brought its rule's own count to the
\* limit.
LastReached(rn, per_rule_limit) ==
    /\ rn.attempts # <<>>
    /\ rn.attempts[Len(rn.attempts)].fired
    /\ FiredOf(rn, rn.attempts[Len(rn.attempts)].rule) = per_rule_limit

\* The rules a_to_b and b_to_a, in either order, under full saturation on a
\* space with the value under val: they fire alternately.
Alternating(rn) ==
    /\ rn.mode = "saturation"
    /\ {rn.system.rules[i].name : i \in DOMAIN rn.system.rules} = {"a_to_b", "b_to_a"}
    /\ rn.start = ControlSpace(<<ValueInt(23)>>)

\* C12: under control_limit_per_rule(L) a run goes on while every rule's own
\* count of firings is below L and is stopped by the first firing that brings
\* the count of its rule to L, whatever the total count is: two rules firing
\* alternately end with Stopped { count: 2 * L - 1 }, which is 19 for L = 10.
\* Under control_limit_total_and_per_rule(N, L) a run goes on while the total
\* is below N and every rule's count below L, and is stopped by the first
\* firing that reaches either limit.
C12_LimitPerRule ==
    /\ (Running(SaturationModes) /\ run.control.kind = "limit_per_rule") =>
          /\ run.run_count = Cardinality(FiredAttempts(run.attempts))
          /\ run.pc = "loop" =>
                \A r \in RuleIndexes(run) : FiredOf(run, r) < run.control.per_rule_limit
          /\ run.pc = "done" =>
                /\ run.result.kind \in {"Ok", "Stopped"}
                /\ run.result.count = run.run_count
                /\ run.result.kind = "Stopped" <=> LastReached(run, run.control.per_rule_limit)
                /\ \A r \in RuleIndexes(run) : FiredOf(run, r) <= run.control.per_rule_limit
                /\ Alternating(run) =>
                      run.result = ResultStopped(2 * run.control.per_rule_limit - 1)
    /\ (Running(SaturationModes) /\ run.control.kind = "limit_total_and_per_rule") =>
          /\ run.run_count = Cardinality(FiredAttempts(run.attempts))
          /\ run.pc = "loop" =>
                /\ run.run_count < run.control.total_limit
                /\ \A r \in RuleIndexes(run) : FiredOf(run, r) < run.control.per_rule_limit
          /\ run.pc = "done" =>
                /\ run.result.kind \in {"Ok", "Stopped"}
                /\ run.result.count = run.run_count
                /\ run.result.kind = "Stopped" <=>
                      \/ run.run_count = run.control.total_limit
                      \/ LastReached(run, run.control.per_rule_limit)

\* The run of the control helper test: a_to_b and b_to_a under full saturation
\* with the limit 10 for each rule, stopped with the count 19 by the tenth
\* firing of a_to_b.
C12_Witness ==
    /\ run.pc = "done"
    /\ Alternating(run)
    /\ run.control.kind = "limit_per_rule"
    /\ run.control.per_rule_limit = TestLimit
    /\ run.inputs = <<1, 2>>
    /\ run.system.rules[1].name = "a_to_b"
    /\ run.result = ResultStopped(19)
    /\ FiredOf(run, 0) = 10
    /\ FiredOf(run, 1) = 9

(***************************************************************************)
(* Searches of selections on spaces built by adding values.                *)
(***************************************************************************)
SearchResultAdd == ApplyAddBindingAttribute(0, "result", 2)

\* rule test:in { $A.in: $v } do { + $A.result: $v }
RuleSelIn ==
    CompiledRule("in", 3, <<OpSearchAttributeBinding(0, "in", 2), OpEnd>>, <<SearchResultAdd>>)

\* rule test:less { $A.in: $v, $v < 15 } do { + $A.result: $v }
RuleSelLess ==
    CompiledRule("less", 3,
        <<OpSearchAttributeBinding(0, "in", 2),
          OpCompare(CompareBindingOf(2), "Less", CompareValueOf(ValueInt(15))), OpEnd>>,
        <<SearchResultAdd>>)

\* rule test:not_out { $A.in: $v, not { $A.out: $v } } do { + $A.result: $v }
RuleSelNotOut ==
    CompiledRule("not_out", 3,
        <<OpSearchAttributeBinding(0, "in", 2), OpBeginNot(0, 2),
          OpRequireAttributeBinding(0, "out", 2), OpEndNot(0), OpEnd>>,
        <<SearchResultAdd>>)

\* rule test:not_less { $A.in: $v, not { $A.out: $w, $w < $v } } do { + $A.result: $v }
RuleSelNotLess ==
    CompiledRule("not_less", 4,
        <<OpSearchAttributeBinding(0, "in", 2), OpBeginNot(0, 3),
          OpSearchAttributeBinding(0, "out", 3),
          OpCompare(CompareBindingOf(3), "Less", CompareBindingOf(2)), OpEndNot(0), OpEnd>>,
        <<SearchResultAdd>>)

\* rule test:not_then { $A.in: $v, not { $A.out: $v }, $A.in: $w, $w > $v }
\*   do { + $A.result: $v }
RuleSelNotThen ==
    CompiledRule("not_then", 4,
        <<OpSearchAttributeBinding(0, "in", 2), OpBeginNot(0, 2),
          OpRequireAttributeBinding(0, "out", 2), OpEndNot(0),
          OpSearchAttributeBinding(0, "in", 3),
          OpCompare(CompareBindingOf(3), "Greater", CompareBindingOf(2)), OpEnd>>,
        <<SearchResultAdd>>)

\* rule test:nested { $A.in: $v, not { $A.out: $w, not { $w > $v } } }
\*   do { + $A.result: $v }
\* The not scopes are numbered as their bodies are assembled, the inner first.
RuleSelNested ==
    CompiledRule("nested", 4,
        <<OpSearchAttributeBinding(0, "in", 2), OpBeginNot(1, 5),
          OpSearchAttributeBinding(0, "out", 3), OpBeginNot(0, 2),
          OpCompare(CompareBindingOf(3), "Greater", CompareBindingOf(2)), OpEndNot(0),
          OpEndNot(1), OpEnd>>,
        <<SearchResultAdd>>)

SearchPool ==
    {RuleSelIn, RuleSelLess, RuleSelNotOut, RuleSelNotLess, RuleSelNotThen, RuleSelNested,
     RuleOnce}

\* The op at this place of the list (counted from 1) lies in a not body.
InNot(ops, i) ==
    \E j \in 1..(i - 1) : ops[j].op = "BeginNot" /\ i < j + ops[j].sequence_len

\* The slots the ops of the not bodies bind: the bodies' own variables.
BodySlots(ops) ==
    {ops[i].value_binding :
        i \in {k \in DOMAIN ops : InNot(ops, k) /\ ops[k].op = "SearchAttributeBinding"}}
    \cup {ops[i].binding : i \in {k \in DOMAIN ops : InNot(ops, k) /\ ops[k].op = "Calculation"}}

\* The slots of the variables bound outside every not body.
OuterSlots(rule) == (0..(rule.bindings_len - 1)) \ BodySlots(rule.ops)

SearchValues == {ValueInt(5), ValueInt(10), ValueInt(15)}
SearchNames == {"in", "out"}

\* The values all attributes of an object hold.
ValueCount(acc, id) == Len(AllValues(Attributes(acc, id)))

\* The bindings storage of a system that holds the rule, for the inputs 1, 2.
SearchBindings(rule) ==
    make_bindings_storage(load(SystemNew("test", <<"A", "B">>), rule).system, <<1, 2>>).bindings

InitSearch ==
    /\ access = RunSpace(<<>>)
    /\ OBJECT_ID_SEQUENCE = 3
    /\ txlog = <<>>
    /\ nwrites = 0
    /\ ntx = 0
    /\ last = NoLast
    /\ run = IdleRun(SystemNew("test", <<"A", "B">>))

\* attributes_mut(1).add(name, value)
SearchAdd ==
    /\ ValueCount(access, 1) < MaxValues
    /\ \E name \in SearchNames, value \in SearchValues :
          access' = AccessAdd(access, 1, name, value)
    /\ last' = NoLast
    /\ UNCHANGED <<OBJECT_ID_SEQUENCE, txlog, nwrites, ntx, run>>

\* The selection of a rule is searched on the space: find_first_bindings,
\* search_bindings with a callback that always continues, and what an attempt
\* to fire the rule would make of the space.
SearchFind ==
    /\ \E rule \in SearchPool :
          \E first \in {find_first_bindings(rule.ops, access, SearchBindings(rule))},
             all \in {search_bindings(rule.ops, access, SearchBindings(rule), "Continue")},
             fired \in {attempt_rule_firing(rule, access, SearchBindings(rule),
                                            OBJECT_ID_SEQUENCE)} :
                last' = [NoLast EXCEPT !.op = "search", !.arg = rule, !.ret = first,
                                       !.inner = all, !.tx = fired]
    /\ UNCHANGED <<access, OBJECT_ID_SEQUENCE, txlog, nwrites, ntx, run>>

NextSearch ==
    \/ SearchAdd
    \/ SearchFind

SpecSearch == InitSearch /\ [][NextSearch]_vars

\* The assignments that satisfy an op-list, in the order of the attribute
\* values: a search op ranges over the values of its attribute, a test op
\* filters, and a not lets an assignment through iff its body, taken as an
\* op-list of its own, is satisfied by no assignment.
RECURSIVE Satisfying(_, _, _)
RECURSIVE SatisfyingEach(_, _, _, _, _)
SatisfyingEach(rest, acc, bindings, binding, values) ==
    IF values = <<>> THEN <<>>
    ELSE Satisfying(rest, acc, SetBound(bindings, binding, Head(values)))
         \o SatisfyingEach(rest, acc, bindings, binding, Tail(values))

Satisfying(ops, acc, bindings) ==
    CASE Head(ops).op = "End" -> <<bindings>>
      [] Head(ops).op = "SearchAttributeBinding" ->
            IF IsObject(Bound(bindings, Head(ops).binding))
            THEN SatisfyingEach(Tail(ops), acc, bindings, Head(ops).value_binding,
                     AttrIterNamed(Attributes(acc, Bound(bindings, Head(ops).binding).id),
                                   Head(ops).attribute))
            ELSE <<>>
      [] Head(ops).op = "BeginNot" ->
            IF Satisfying(Append(SubSeq(ops, 2, Head(ops).sequence_len), OpEnd),
                          acc, bindings) = <<>>
            THEN Satisfying(SubSeq(ops, Head(ops).sequence_len + 2, Len(ops)), acc, bindings)
            ELSE <<>>
      [] OTHER ->
            IF ExecOp(Head(ops), acc, bindings, <<>>, 0).flow = "NextOp"
            THEN Satisfying(Tail(ops), acc, ExecOp(Head(ops), acc, bindings, <<>>, 0).bindings)
            ELSE <<>>

\* An assignment as far as the variables outside the not bodies go.
OuterOf(rule, bindings) == [b \in OuterSlots(rule) |-> Bound(bindings, b)]
OuterEach(rule, assignments) ==
    [i \in DOMAIN assignments |-> OuterOf(rule, assignments[i])]

HasNot(rule) == \E i \in DOMAIN rule.ops : rule.ops[i].op = "BeginNot"

\* C13: the search of a selection with a not reports exactly the outer
\* assignments under which no assignment satisfies the body: where the body is
\* satisfied the search goes on with the next candidates of the enclosing
\* iterations, where it is not, with the ops after the not. The first
\* assignment found is the first of them, and the search fails as a whole only
\* when there is none.
C13_NotAcceptsIffBodyUnsatisfiable ==
    (last.op = "search" /\ HasNot(last.arg)) =>
        /\ ~last.inner.panic
        /\ ~last.ret.panic
        /\ OuterEach(last.arg, last.inner.ends)
              = OuterEach(last.arg, Satisfying(last.arg.ops, access, SearchBindings(last.arg)))
        /\ last.ret.ret = (Satisfying(last.arg.ops, access, SearchBindings(last.arg)) # <<>>)
        /\ last.ret.ret =>
              OuterOf(last.arg, last.ret.bindings)
                 = OuterOf(last.arg, Head(Satisfying(last.arg.ops, access, SearchBindings(last.arg))))

\* A search whose not body, with a variable of its own, was satisfied for the
\* first candidate of the enclosing iteration and for no assignment under the
\* second: the second candidate was found.
C13_Witness ==
    /\ last.op = "search"
    /\ last.arg = RuleSelNotLess
    /\ AttrIterNamed(Attributes(access, 1), "in") = <<ValueInt(10), ValueInt(5)>>
    /\ AttrIterNamed(Attributes(access, 1), "out") = <<ValueInt(5)>>
    /\ last.ret.ret
    /\ Bound(last.ret.bindings, 2) = ValueInt(5)

\* The values bound to the slot in a sequence of assignments.
BoundEach(assignments, binding) ==
    [i \in DOMAIN assignments |-> Bound(assignments[i], binding)]

\* The values of the attribute in of object 1, as the attribute list holds
\* them: in insertion order.
InValues(acc) ==
    Concat([i \in DOMAIN Attributes(acc, 1) |->
               IF Attributes(acc, 1)[i].name = "in" THEN Attributes(acc, 1)[i].values
               ELSE <<>>])

\* C17: the search reports the satisfying assignments depth-first over the
\* op-list with the candidates of each SearchAttributeBinding in the insertion
\* order of the attribute's values; find_first_bindings stops at the first of
\* them, and a firing attempt applies its changes with that assignment. For
\* the selection $A.in: $v, $v < 15 these are the values of in below 15 in
\* insertion order, the first of which the firing binds.
C17_SearchOrder ==
    last.op = "search" =>
        /\ OuterEach(last.arg, last.inner.ends)
              = OuterEach(last.arg, Satisfying(last.arg.ops, access, SearchBindings(last.arg)))
        /\ last.ret.ret = (last.inner.ends # <<>>)
        /\ last.ret.ret => last.ret.bindings = last.inner.ends[1]
        /\ last.arg = RuleSelIn => BoundEach(last.inner.ends, 2) = InValues(access)
        /\ last.arg = RuleSelLess =>
              BoundEach(last.inner.ends, 2) = SelectSeq(InValues(access), LAMBDA v : v.n < 15)
        /\ (last.ret.ret /\ last.arg # RuleOnce) =>
              /\ last.tx.ret
              /\ AttrIterNamed(Attributes(last.tx.acc, 1), "result")
                    = <<Bound(last.inner.ends[1], 2)>>

\* The values 15, 5, 10 were added in this order and $v < 15 was searched:
\* 5 and 10 are reported in this order, and the firing binds 5.
C17_Witness ==
    /\ last.op = "search"
    /\ last.arg = RuleSelLess
    /\ InValues(access) = <<ValueInt(15), ValueInt(5), ValueInt(10)>>
    /\ BoundEach(last.inner.ends, 2) = <<ValueInt(5), ValueInt(10)>>
    /\ AttrIterNamed(Attributes(last.tx.acc, 1), "result") = <<ValueInt(5)>>

(***************************************************************************)
(* Removals of values that are, or are not, in the space.                  *)
(***************************************************************************)
\* rule test:take_req {} do { + $A.out: 5, - $A.in: 5 }
RuleTakeRequired ==
    CompiledRule("take_req", 2, <<OpEnd>>,
        <<ApplyAddValueAttribute(0, "out", ValueInt(5)),
          ApplyRemoveValueAttribute(0, "in", ValueInt(5), "Required")>>)

\* rule test:take_opt {} do { + $A.out: 5, -? $A.in: 5 }
RuleTakeOptional ==
    CompiledRule("take_opt", 2, <<OpEnd>>,
        <<ApplyAddValueAttribute(0, "out", ValueInt(5)),
          ApplyRemoveValueAttribute(0, "in", ValueInt(5), "Optional")>>)

\* rule test:drop_req { $A.out: $v } do { - $A.in: $v }
RuleDropRequired ==
    CompiledRule("drop_req", 3, <<OpSearchAttributeBinding(0, "out", 2), OpEnd>>,
        <<ApplyRemoveBindingAttribute(0, "in", 2, "Required")>>)

\* rule test:drop_opt { $A.out: $v } do { -? $A.in: $v }
RuleDropOptional ==
    CompiledRule("drop_opt", 3, <<OpSearchAttributeBinding(0, "out", 2), OpEnd>>,
        <<ApplyRemoveBindingAttribute(0, "in", 2, "Optional")>>)

RemovePool == {RuleTakeRequired, RuleTakeOptional, RuleDropRequired, RuleDropOptional}

\* One firing attempt of a rule of the pool on the space, while the space
\* holds at most MaxValues values.
RemoveAttempt ==
    /\ ValueCount(access, 1) <= MaxValues
    /\ \E rule \in RemovePool :
          \E r \in {attempt_rule_firing(rule, access, SearchBindings(rule),
                                        OBJECT_ID_SEQUENCE)} :
             /\ access' = r.acc
             /\ OBJECT_ID_SEQUENCE' = r.idseq
             /\ last' = [NoLast EXCEPT !.op = "attempt", !.ret = r.ret, !.snap = access,
                                       !.inner = r.panic,
                                       !.arg = [rule |-> rule, bindings |-> r.bindings,
                                                idseq |-> OBJECT_ID_SEQUENCE]]
    /\ UNCHANGED <<txlog, nwrites, ntx, run>>

NextRemove ==
    \/ SearchAdd
    \/ RemoveAttempt

SpecRemove == InitSearch /\ [][NextRemove]_vars

\* The remove op of the last attempted rule, and the value it is to remove.
RemoveOp == CHOOSE op \in {last.arg.rule.apply_ops[i] : i \in DOMAIN last.arg.rule.apply_ops} :
                op.op \in {"RemoveValueAttribute", "RemoveBindingAttribute"}
RemoveValue ==
    IF RemoveOp.op = "RemoveValueAttribute" THEN RemoveOp.value
    ELSE Bound(last.arg.bindings, RemoveOp.value_binding)

\* The search of the last attempted rule found an assignment.
RemoveFound ==
    last.arg.rule.ops = <<OpEnd>> \/ AttrIterNamed(Attributes(last.snap, 1), "out") # <<>>

\* s without its item at place i.
Without(s, i) == [k \in 1..(Len(s) - 1) |-> IF k < i THEN s[k] ELSE s[k + 1]]

\* after is before without the first occurrence of the value.
FirstOccurrenceRemoved(before, after, value) ==
    \E i \in DOMAIN before :
        /\ before[i] = value
        /\ \A j \in 1..(i - 1) : before[j] # value
        /\ after = Without(before, i)

\* C14: a removal of a value that the attribute does not hold makes the firing
\* fail and roll back when it is Required, and is passed over with the values
\* left as they are when it is Optional, without a runtime error either way;
\* a removal of a value the attribute holds takes out one occurrence, the
\* first in insertion order.
C14_RemovalOfAbsentValue ==
    (last.op = "attempt" /\ last.arg.rule \in RemovePool /\ RemoveFound) =>
        /\ last.inner = FALSE
        /\ IF \E i \in DOMAIN AttrIterNamed(Attributes(last.snap, 1), "in") :
                 AttrIterNamed(Attributes(last.snap, 1), "in")[i] = RemoveValue
           THEN /\ last.ret
                /\ FirstOccurrenceRemoved(AttrIterNamed(Attributes(last.snap, 1), "in"),
                                          AttrIterNamed(Attributes(access, 1), "in"),
                                          RemoveValue)
           ELSE IF RemoveOp.mode = "Required"
           THEN /\ ~last.ret
                /\ access = last.snap
           ELSE /\ last.ret
                /\ AttrIterNamed(Attributes(access, 1), "in")
                      = AttrIterNamed(Attributes(last.snap, 1), "in")
                /\ View(access)
                      = View(apply_changes(SelectSeq(last.arg.rule.apply_ops,
                                               LAMBDA op : op # RemoveOp),
                                           last.snap, last.arg.bindings, last.arg.idseq).acc)

\* The value 5 was under in twice with another value between, and a Required
\* removal took out the first of the two.
C14_WitnessFirst ==
    /\ last.op = "attempt"
    /\ last.arg.rule = RuleTakeRequired
    /\ last.ret
    /\ AttrIterNamed(Attributes(last.snap, 1), "in") = <<ValueInt(10), ValueInt(5), ValueInt(5)>>
    /\ AttrIterNamed(Attributes(access, 1), "in") = <<ValueInt(10), ValueInt(5)>>

\* An Optional removal of a value that was not there was passed over and the
\* other change of the rule was made.
C14_WitnessOptional ==
    /\ last.op = "attempt"
    /\ last.arg.rule = RuleTakeOptional
    /\ last.ret
    /\ AttrIterNamed(Attributes(last.snap, 1), "in") = <<ValueInt(10)>>
    /\ AttrIterNamed(Attributes(access, 1), "out") = <<ValueInt(5)>>

\* A Required removal of a value that was not there, the value being the one
\* the search bound: the attempt failed and the space is as it was.
C14_Witness ==
    /\ last.op = "attempt"
    /\ last.arg.rule = RuleDropRequired
    /\ ~last.ret
    /\ AttrIterNamed(Attributes(last.snap, 1), "in") = <<ValueInt(10), ValueInt(10)>>
    /\ AttrIterNamed(Attributes(last.snap, 1), "out") = <<ValueInt(5)>>
    /\ access = last.snap

\* C15: a run of any strategy with a number of inputs other than the number
\* of input variables of the system ends at once with
\* InvalidInputArgumentLen { expected, received }: no rule was attempted, the
\* callback was not called, and the space and the Id counter are as they were.
\* A run with the right number of inputs never returns this error.
C15_WrongInputLen ==
    run.pc # "idle" =>
        IF Len(run.inputs) # Len(run.system.input_variables)
        THEN /\ run.pc = "done"
             /\ run.result = [kind |-> "InvalidInputArgumentLen",
                              expected |-> Len(run.system.input_variables),
                              received |-> Len(run.inputs)]
             /\ run.attempts = <<>>
             /\ run.calls = <<>>
             /\ access = run.start
             /\ OBJECT_ID_SEQUENCE = 3
        ELSE run.result.kind # "InvalidInputArgumentLen"

\* A full saturation run with one input for the two input variables of a
\* system whose first rule fires on every space.
C15_Witness ==
    /\ run.pc = "done"
    /\ run.mode = "saturation"
    /\ run.inputs = <<1>>
    /\ run.system.rules # <<>>
    /\ run.system.rules[1].name = "add"
    /\ run.result.kind = "InvalidInputArgumentLen"
    /\ run.result.expected = 2
    /\ run.result.received = 1

(***************************************************************************)
(* Loading rules into a system.                                            *)
(***************************************************************************)
\* rule test:add { $A.in: $v, $B.in: $w } do { + $A.out: $v, + $B.out: $w }:
\* a second rule of the name add, with more bindings.
RuleAddWide ==
    CompiledRule("add", 4,
        <<OpSearchAttributeBinding(0, "in", 2), OpSearchAttributeBinding(1, "in", 3), OpEnd>>,
        <<ApplyAddBindingAttribute(0, "out", 2), ApplyAddBindingAttribute(1, "out", 3)>>)

LoadPool == {RulePool[i] : i \in DOMAIN RulePool} \cup {RuleAddWide}

InitLoad ==
    /\ access = RunSpace(<<>>)
    /\ OBJECT_ID_SEQUENCE = 3
    /\ txlog = <<>>
    /\ nwrites = 0
    /\ ntx = 0
    /\ last = NoLast
    /\ run = IdleRun(SystemNew("test", <<"A", "B">>))

\* system.load(rule), for a system of at most MaxRules rules.
Load ==
    /\ Len(run.system.rules) <= MaxRules
    /\ \E rule \in LoadPool :
          \E r \in {load(run.system, rule)} :
             /\ run' = [run EXCEPT !.system = r.system]
             /\ last' = [NoLast EXCEPT !.op = "load", !.ret = r.ok, !.inner = r.err,
                                       !.arg = rule, !.snap = run.system]
    /\ UNCHANGED <<access, OBJECT_ID_SEQUENCE, txlog, nwrites, ntx>>

NextLoad == Load

SpecLoad == InitLoad /\ [][NextLoad]_vars

\* C16: a load of a rule whose name a rule of the system has fails with
\* DuplicateRuleName(system, rule) and leaves the rule list and the max
\* binding count as they were; any other load appends the rule. So the names
\* of the rules of a system are pairwise distinct, and the max binding count
\* is at least the binding count of every rule and the number of input
\* variables.
C16_DuplicateRuleName ==
    /\ last.op = "load" =>
          IF \E i \in DOMAIN last.snap.rules : last.snap.rules[i].name = last.arg.name
          THEN /\ ~last.ret
               /\ last.inner = [kind |-> "DuplicateRuleName", system |-> "test",
                                rule |-> last.arg.name]
               /\ run.system = last.snap
          ELSE /\ last.ret
               /\ run.system.rules = Append(last.snap.rules, last.arg)
    /\ \A i, j \in DOMAIN run.system.rules :
          run.system.rules[i].name = run.system.rules[j].name => i = j
    /\ \A i \in DOMAIN run.system.rules :
          run.system.max_binding_len >= run.system.rules[i].bindings_len
    /\ run.system.max_binding_len >= Len(run.system.input_variables)

\* The rule add is in the system with three bindings at most, and a load of
\* another rule of the name add with four bindings failed.
C16_Witness ==
    /\ last.op = "load"
    /\ ~last.ret
    /\ last.arg = RuleAddWide
    /\ run.system.max_binding_len < RuleAddWide.bindings_len
    /\ \E i \in DOMAIN run.system.rules : run.system.rules[i] = RuleAdd

(***************************************************************************)
(* Two runs side by side: the same strategy, system, inputs and callback   *)
(* on equal spaces. The first run is in run, access and OBJECT_ID_SEQUENCE;*)
(* the second is carried in last: snap its space, count its Id counter,    *)
(* inner its run and arg the value its Id counter had at the start.        *)
(***************************************************************************)
Twin(acc, idseq, rn, counter) ==
    [NoLast EXCEPT !.op = "twin", !.snap = acc, !.count = idseq, !.inner = rn,
                   !.arg = counter]

\* The values the process-wide Id counter may have when the second run
\* starts: the one of the first run, or a later one.
TwinCounters == {3, 4}

TwinInputs == {<<1, 2>>, <<2, 1>>}

InitTwin ==
    /\ access \in RunSpaces
    /\ OBJECT_ID_SEQUENCE = 3
    /\ txlog = <<>>
    /\ nwrites = 0
    /\ ntx = 0
    /\ last = NoLast
    /\ run \in {IdleRun(system) : system \in Systems}

\* Both runs are entered.
TwinStart ==
    /\ run.pc = "idle"
    /\ \E mode \in Modes, inputs \in TwinInputs, counter \in TwinCounters :
          /\ run' = RunEntered(run, access, mode, inputs, AnyControl)
          /\ last' = Twin(access, counter,
                          RunEntered(run, access, mode, inputs, AnyControl), counter)
    /\ UNCHANGED <<access, OBJECT_ID_SEQUENCE, txlog, nwrites, ntx>>

\* Both runs make one pass of the loop body of their strategy, and the
\* callback gives both the same answer.
TwinAttempt ==
    /\ last.op = "twin"
    /\ run.pc = "loop"
    /\ last.inner.pc = "loop"
    /\ Len(run.attempts) < MaxAttempts
    /\ \E a \in {attempt_rule_firing(CurrentRule(run), access, run.bindings,
                                      OBJECT_ID_SEQUENCE)},
          b \in {attempt_rule_firing(CurrentRule(last.inner), last.snap,
                                      last.inner.bindings, last.count)},
          control \in ControlAnswers(run, CurrentRule(run).name, run.run_count + 1) :
             /\ access' = a.acc
             /\ OBJECT_ID_SEQUENCE' = a.idseq
             /\ run' = Attempted(run, a, control)
             /\ last' = Twin(b.acc, b.idseq, Attempted(last.inner, b, control), last.arg)
    /\ UNCHANGED <<txlog, nwrites, ntx>>

NextTwin ==
    \/ TwinStart
    \/ TwinAttempt

SpecTwin == InitTwin /\ [][NextTwin]_vars

\* An Id of the second run as the first run names it: the Ids from the
\* second run's counter on are those from the first run's counter on.
RenameId(id, from, to) == IF id >= from THEN id - from + to ELSE id

RECURSIVE RenameValue(_, _, _)
RenameValue(v, from, to) ==
    CASE v.t = "obj" -> ValueObject(RenameId(v.id, from, to))
      [] v.t = "tup" -> ValueTuple([i \in DOMAIN v.items |-> RenameValue(v.items[i], from, to)])
      [] OTHER -> v

RenameValues(values, from, to) == [i \in DOMAIN values |-> RenameValue(values[i], from, to)]

RenameAttributes(attributes, from, to) ==
    [i \in DOMAIN attributes |->
        [name |-> attributes[i].name,
         values |-> RenameValues(attributes[i].values, from, to)]]

RenameLayer(layer, from, to) ==
    [roots |-> [i \in DOMAIN layer.roots |-> RenameId(layer.roots[i], from, to)],
     objects |-> [id \in {RenameId(k, from, to) : k \in DOMAIN layer.objects} |->
                    RenameAttributes(
                        layer.objects[CHOOSE k \in DOMAIN layer.objects :
                                         RenameId(k, from, to) = id],
                        from, to)]]

RenameAccess(acc, from, to) == [i \in DOMAIN acc |-> RenameLayer(acc[i], from, to)]

\* The run as far as the strategy goes: where it stands and what it returned.
Outcome(rn) ==
    [pc |-> rn.pc, rule_index |-> rn.rule_index, run_count |-> rn.run_count,
     result |-> rn.result, attempts |-> rn.attempts, calls |-> rn.calls]

\* The number of firings of the rule create in the run: each created one object.
CreatedBy(rn) ==
    Cardinality({i \in FiredAttempts(rn.attempts) :
                    rn.system.rules[rn.attempts[i].rule + 1].name = "create"})

\* Every Id that occurs in the layers of the space: as a root, as an object
\* with attributes, or inside a value.
SpaceIds(acc) ==
    UNION {{acc[l].roots[i] : i \in DOMAIN acc[l].roots}
           \cup DOMAIN acc[l].objects
           \cup UNION {RefsOfObject(acc[l], id) : id \in DOMAIN acc[l].objects} :
           l \in DOMAIN acc}

\* The claim of C18 as it stands: two runs of the same strategy with the same
\* rules and inputs on equal spaces return the same and leave equal spaces,
\* the Ids of the created objects included.
C18_Deterministic ==
    (last.op = "twin" /\ run.pc = "done") =>
        /\ last.inner.pc = "done"
        /\ last.inner.result = run.result
        /\ last.snap = access

\* C18: two runs of the same strategy with the same rules and inputs on equal
\* spaces go the same way and return the same, and their spaces are equal up
\* to the Ids of the objects the rules created. These Ids are values of the
\* process-wide Id counter, which both runs advance by the same amount, at
\* least by one for each firing that created an object, and which stays above
\* every Id of the space; so the spaces are equal, Ids included, when the
\* counter was the same at the start of both runs.
C18_DeterministicUpToCreatedIds ==
    last.op = "twin" =>
        /\ Outcome(last.inner) = Outcome(run)
        /\ RenameAccess(last.snap, last.arg, 3) = access
        /\ RenameValues(last.inner.bindings, last.arg, 3) = run.bindings
        /\ OBJECT_ID_SEQUENCE - 3 = last.count - last.arg
        /\ OBJECT_ID_SEQUENCE >= 3 + CreatedBy(run)
        /\ \A id \in SpaceIds(access) : id < OBJECT_ID_SEQUENCE
        /\ \A id \in SpaceIds(last.snap) : id < last.count
        /\ last.arg = 3 => last.snap = access

\* Both runs are done after the rule create fired; the second run started
\* with a later value of the Id counter, and its space holds the created
\* object under another Id than the space of the first.
C18_Witness ==
    /\ last.op = "twin"
    /\ run.pc = "done"
    /\ last.arg = 4
    /\ CreatedBy(run) = 1
    /\ last.snap # access
    /\ AttrIterNamed(Attributes(access, 1), "child") = <<ValueObject(3)>>
    /\ AttrIterNamed(Attributes(last.snap, 1), "child") = <<ValueObject(4)>>
(***************************************************************************)
(* Per-rule saturation of the rule move on roots with values under in.     *)
(***************************************************************************)
MovePool == <<RuleMove, RuleOnce>>

MoveValues == {ValueInt(23), ValueInt(42)}

\* The spaces with at most MaxValues values under in of object 1, the same
\* value more than once included.
MoveSpaces ==
    {RunSpace(values) : values \in UNION {[1..n -> MoveValues] : n \in 0..MaxValues}}

InitMove ==
    /\ access \in MoveSpaces
    /\ OBJECT_ID_SEQUENCE = 3
    /\ txlog = <<>>
    /\ nwrites = 0
    /\ ntx = 0
    /\ last = NoLast
    /\ run \in {IdleRun(system) : system \in SystemsOf(MovePool)}

\* run_rule_saturation is entered.
RunStartMove == RunStartWith({"rule_saturation"}, {AlwaysContinue, AnyControl})

NextMove ==
    \/ RunStartMove
    \/ RunRuleSaturation

SpecMove == InitMove /\ [][NextMove]_vars

\* The values under in and under out of the object that $A is bound to.
InOf(acc) == AttrIterNamed(Attributes(acc, run.inputs[1]), "in")
OutOf(acc) == AttrIterNamed(Attributes(acc, run.inputs[1]), "out")

\* The number of attempts of the first rule that fired.
Moved == Cardinality({i \in FiredAttempts(run.attempts) : run.attempts[i].rule = 0})

\* C19: per-rule saturation with the rule move as first rule, on a root with
\* n values under in and none under out, moves the values one at a time from
\* the front of in to the end of out: it fires exactly n times, then in holds
\* no value and out holds the n values in the order they had under in, also
\* when a value occurs more than once, unless the callback stopped the run
\* before; with move as the only rule the run returns Ok(n).
C19_MoveSaturation ==
    (Running({"rule_saturation"}) /\ run.system.rules # <<>>
        /\ run.system.rules[1].name = "move") =>
        LET given == InOf(run.start)
            n == Len(given)
        IN /\ Moved <= n
           /\ InOf(access) = SubSeq(given, Moved + 1, n)
           /\ Len(OutOf(access)) >= Moved
           /\ SubSeq(OutOf(access), 1, Moved) = SubSeq(given, 1, Moved)
           /\ (run.rule_index > 0 \/ (run.pc = "done" /\ run.result.kind = "Ok")) =>
                 /\ Moved = n
                 /\ InOf(access) = <<>>
                 /\ SubSeq(OutOf(access), 1, n) = given
           /\ (run.pc = "done" /\ Len(run.system.rules) = 1) =>
                 /\ run.result.kind \in {"Ok", "Stopped"}
                 /\ run.result.kind = "Stopped" => run.control.kind = "any"
           /\ (run.pc = "done" /\ run.result.kind = "Ok" /\ Len(run.system.rules) = 1) =>
                 /\ run.result = ResultOk(n)
                 /\ OutOf(access) = given
                 /\ Len(run.attempts) = n + 1

\* The run of the rule move alone is done on a root that had 23, 42, 23 under
\* in: it returned Ok(3) and out holds 23, 42, 23.
C19_Witness ==
    /\ Running({"rule_saturation"})
    /\ run.control = AlwaysContinue
    /\ run.pc = "done"
    /\ Len(run.system.rules) = 1
    /\ run.system.rules[1].name = "move"
    /\ InOf(run.start) = <<ValueInt(23), ValueInt(42), ValueInt(23)>>
    /\ run.result = ResultOk(3)
    /\ InOf(access) = <<>>
    /\ OutOf(access) = <<ValueInt(23), ValueInt(42), ValueInt(23)>>
(***************************************************************************)
(* compiler/cfg.rs: the environment of ast_to_cfg and the checks of the    *)
(* bindings at its end. A HashMap is a function on its keys.               *)
(***************************************************************************)
MaxUses == 2
MaxNotDepth == 2

CountOf(m, k) == IF k \in DOMAIN m THEN m[k] ELSE 0

\* *map.entry(k).or_insert(0) += 1
Bump(m, k) == MapInsert(m, k, CountOf(m, k) + 1)

\* Env::new. index_sequence, instance_counts and access_counts are references
\* to the one counter and the two maps of ast_to_cfg; visible_bindings is the
\* environment's own.
EnvNew ==
    [index_sequence |-> 0, visible_bindings |-> <<>>, instance_counts |-> <<>>,
     access_counts |-> <<>>]

\* Env::bind: [env, binding].
bind(env, name) ==
    IF name \in DOMAIN env.visible_bindings
    THEN [env |-> [env EXCEPT !.access_counts = Bump(@, env.visible_bindings[name])],
          binding |-> env.visible_bindings[name]]
    ELSE [env |-> [index_sequence |-> env.index_sequence + 1,
                   visible_bindings |->
                       MapInsert(env.visible_bindings, name, env.index_sequence),
                   instance_counts |-> Bump(env.instance_counts, name),
                   access_counts |-> Bump(env.access_counts, env.index_sequence)],
          binding |-> env.index_sequence]

\* Env::find: [found, env, binding], found = FALSE for None.
find(env, name) ==
    IF name \in DOMAIN env.visible_bindings
    THEN [found |-> TRUE, env |-> bind(env, name).env, binding |-> bind(env, name).binding]
    ELSE [found |-> FALSE, env |-> env, binding |-> 0]

\* Env::binding: the names that are visible under this binding (none for None).
BindingNames(env, b) ==
    {name \in DOMAIN env.visible_bindings : env.visible_bindings[name] = b}

\* let mut sub_env = env.clone(): the body of a not is compiled in the clone,
\* and the environment before the not goes on with its own visible_bindings
\* and the shared counter and maps.
AfterNot(sub_env, visible_bindings) ==
    [sub_env EXCEPT !.visible_bindings = visible_bindings]

CompileOk(bindings_len) == [kind |-> "Ok", bindings_len |-> bindings_len]
IllegalNewBinding(name) == [kind |-> "IllegalNewBinding", name |-> name]
SingleBindingUse(names) == [kind |-> "SingleBindingUse", names |-> names]
RepeatBindings(names) == [kind |-> "RepeatBindings", names |-> names]

\* verify_multi_usage: the names of the Err, or {} for Ok.
verify_multi_usage(env, access_counts) ==
    UNION {BindingNames(env, b) : b \in {c \in DOMAIN access_counts : access_counts[c] = 1}}

\* verify_distinct_bindings: the names of the Err, or {} for Ok.
verify_distinct_bindings(instance_counts) ==
    {name \in DOMAIN instance_counts : instance_counts[name] > 1}

\* The end of ast_to_cfg: the two checks, then the rule.
VerifyBindings(env) ==
    IF verify_distinct_bindings(env.instance_counts) # {}
    THEN RepeatBindings(verify_distinct_bindings(env.instance_counts))
    ELSE IF verify_multi_usage(env, env.access_counts) # {}
    THEN SingleBindingUse(verify_multi_usage(env, env.access_counts))
    ELSE CompileOk(env.index_sequence)

(***************************************************************************)
(* ast_to_cfg, one item of the rule at a time. The rule is compiled for    *)
(* the system of tests/language.rs with the input variable ROOT; its items *)
(* are attribute selects, nots, and attribute adds and removes, over the   *)
(* variables ROOT, x and y and the wildcard.                               *)
(***************************************************************************)
\* The input variables of the system: ROOT alone as in tests/language.rs, or
\* two as in tests/running.rs.
InputVariableLists == {<<"ROOT">>, <<"ROOT", "y">>}
CfgNames == {"ROOT", "x", "y"}
Wildcard == "$"

\* Where ast_to_cfg stands: the environment, the visible_bindings of the
\* environments around the nots that are open, the phase, the result, and
\* for each variable how often the items so far name it, in all and inside
\* not bodies.
Cfg(env, outer, phase, result, seen, inside) ==
    [NoLast EXCEPT !.op = "cfg",
                   !.arg = [env |-> env, outer |-> outer, phase |-> phase,
                            result |-> result, seen |-> seen, inside |-> inside]]

RECURSIVE BindAll(_, _)
BindAll(env, names) ==
    IF names = <<>> THEN env ELSE BindAll(bind(env, Head(names)).env, Tail(names))

Named(seen, variable) == IF variable = Wildcard THEN seen ELSE Bump(seen, variable)

\* The items so far name the variables once more; inside a not body this
\* counts for the body too.
Seen(cfg, variable, value) ==
    [cfg EXCEPT !.seen = Named(Named(@, variable), value),
                !.inside = IF cfg.outer = <<>> THEN @
                           ELSE Named(Named(@, variable), value)]

InitCompile ==
    /\ access = RunSpace(<<>>)
    /\ OBJECT_ID_SEQUENCE = 3
    /\ txlog = <<>>
    /\ nwrites = 0
    /\ ntx = 0
    /\ run \in {IdleRun(SystemNew("test", inputs)) : inputs \in InputVariableLists}
    /\ last = Cfg(BindAll(EnvNew, run.system.input_variables), <<>>, "select", [kind |-> "none"],
                  <<>>, <<>>)

Compiling(phases) ==
    /\ last.op = "cfg"
    /\ last.arg.phase \in phases

\* ast_to_cfg goes on from here.
Compiled(cfg) ==
    /\ last' = [last EXCEPT !.arg = cfg]
    /\ UNCHANGED <<access, OBJECT_ID_SEQUENCE, txlog, nwrites, ntx, run>>

\* No variable is named more than MaxUses times.
Budget(variable, value) ==
    /\ CountOf(last.arg.seen, variable) < MaxUses
    /\ CountOf(last.arg.seen, value) < (IF value = variable THEN MaxUses - 1 ELSE MaxUses)

\* compile_rule_select, BindingAttribute with a variable or the wildcard as
\* value: $variable.x: $value.
CompileSelectAttribute ==
    /\ Compiling({"select"})
    /\ \E variable \in CfgNames, value \in CfgNames \cup {Wildcard} :
          /\ Budget(variable, value)
          /\ \E b \in {bind(last.arg.env, variable)} :
                Compiled([Seen(last.arg, variable, value) EXCEPT
                             !.env = IF value = Wildcard THEN b.env
                                     ELSE bind(b.env, value).env])

\* compile_rule_select, Not: the body is compiled in a clone of the
\* environment.
CompileNot ==
    /\ Compiling({"select"})
    /\ Len(last.arg.outer) < MaxNotDepth
    /\ Compiled([last.arg EXCEPT !.outer = <<last.arg.env.visible_bindings>> \o @])

\* The body of the innermost open not is at its end: sub_env is dropped.
CompileNotEnd ==
    /\ Compiling({"select"})
    /\ last.arg.outer # <<>>
    /\ Compiled([last.arg EXCEPT !.env = AfterNot(@, Head(last.arg.outer)),
                                 !.outer = Tail(@)])

\* The rule ends with the error.
Failed(cfg, err) == [cfg EXCEPT !.phase = "done", !.result = err]

\* compile_apply_add with a variable as value: + $variable.x: $value.
CompileApplyAdd ==
    /\ Compiling({"select", "apply"})
    /\ last.arg.outer = <<>>
    /\ \E variable \in CfgNames, value \in CfgNames :
          /\ Budget(variable, value)
          /\ \E a \in {find(last.arg.env, variable)} :
                \E b \in {find(a.env, value)} :
                   Compiled(
                       IF ~a.found
                       THEN Failed(Seen(last.arg, variable, value), IllegalNewBinding(variable))
                       ELSE IF ~b.found
                       THEN Failed(Seen(last.arg, variable, value), IllegalNewBinding(value))
                       ELSE [Seen(last.arg, variable, value) EXCEPT
                                !.env = b.env, !.phase = "apply"])

\* compile_apply_remove with a variable as value: - $variable.x: $value.
CompileApplyRemove ==
    /\ Compiling({"select", "apply"})
    /\ last.arg.outer = <<>>
    /\ \E variable \in CfgNames, value \in CfgNames :
          /\ Budget(variable, value)
          /\ \E a \in {find(last.arg.env, variable)} :
                Compiled(
                    IF ~a.found
                    THEN Failed(Seen(last.arg, variable, value), IllegalNewBinding(variable))
                    ELSE [Seen(last.arg, variable, value) EXCEPT
                             !.env = bind(a.env, value).env, !.phase = "apply"])

\* The items are through: the bindings are verified and the rule is made.
CompileEnd ==
    /\ Compiling({"select", "apply"})
    /\ last.arg.outer = <<>>
    /\ Compiled([last.arg EXCEPT !.phase = "done", !.result = VerifyBindings(last.arg.env)])

NextCompile ==
    \/ CompileSelectAttribute
    \/ CompileNot
    \/ CompileNotEnd
    \/ CompileApplyAdd
    \/ CompileApplyRemove
    \/ CompileEnd

SpecCompile == InitCompile /\ [][NextCompile]_vars

\* ast_to_cfg returned Ok for the rule.
Accepted ==
    /\ last.op = "cfg"
    /\ last.arg.phase = "done"
    /\ last.arg.result.kind = "Ok"

\* The input variables of the system the rule is compiled for.
Inputs == {run.system.input_variables[i] : i \in DOMAIN run.system.input_variables}

\* The variables of the rule that are no input variables.
RuleVariables == (DOMAIN last.arg.seen) \ Inputs

\* C20: every rule that the compiler accepts has each variable that is no
\* input variable introduced exactly once and named at least twice in the
\* rule, the variables that are named only inside a not body included.
C20_BindingDiscipline ==
    Accepted =>
        \A name \in RuleVariables :
            /\ CountOf(last.arg.env.instance_counts, name) = 1
            /\ last.arg.seen[name] >= 2

\* What the two checks give: every variable of an accepted rule is introduced
\* exactly once, and those that are visible outside the not bodies are named
\* at least twice.
C20_VisibleBindingDiscipline ==
    Accepted =>
        \A name \in RuleVariables :
            /\ CountOf(last.arg.env.instance_counts, name) = 1
            /\ name \in DOMAIN last.arg.env.visible_bindings => last.arg.seen[name] >= 2
            /\ last.arg.seen[name] < 2 => last.arg.inside[name] = last.arg.seen[name]

\* An accepted rule that names x once, inside a not body.
C20_Witness ==
    /\ Accepted
    /\ CountOf(last.arg.seen, "x") = 1
    /\ CountOf(last.arg.inside, "x") = 1

\* ast_to_cfg returned SingleBindingUse for the rule.
SingleUse ==
    /\ last.op = "cfg"
    /\ last.arg.phase = "done"
    /\ last.arg.result.kind = "SingleBindingUse"

\* C21: the single-use check applies to the variables that are no input
\* variables only: no rule is rejected as single use for an input variable,
\* be it named once in the rule or not at all.
C21_InputsExemptFromSingleUse ==
    SingleUse => last.arg.result.names \cap Inputs = {}

\* What the check gives for the input variables: one that the rule names at
\* least once is not reported, and one that the rule does not name is.
C21_UnnamedInputsReported ==
    SingleUse =>
        last.arg.result.names \cap Inputs =
            {name \in Inputs : CountOf(last.arg.seen, name) = 0}

\* A rule for the inputs ROOT and y that names ROOT once and y not at all is
\* rejected as single use of y.
C21_Witness ==
    /\ SingleUse
    /\ Inputs = {"ROOT", "y"}
    /\ CountOf(last.arg.seen, "ROOT") = 1
    /\ last.arg.result.names = {"y"}

(***************************************************************************)
(* Searches with a Calculation op on values at the ends of the Int range.  *)
(***************************************************************************)
ArithBinOp == {"Add", "Sub", "Mul", "Div"}

\* The values under in: the left operands.
CalcLefts ==
    {ValueInt(MaxInt), ValueInt(-MaxInt - 1), ValueInt(2), ValueFloat(1, 2), ValueSymbol("a")}

\* The literals of the rules: the right operands.
CalcRights ==
    {ValueInt(-1), ValueInt(0), ValueInt(2), ValueInt(MaxInt), ValueFloat(0, 1),
     ValueFloat(1, 2), ValueSymbol("a")}

\* rule test:calc { $A.in: $v, $r is $v <operator> <right> } do { + $A.result: $r }
RuleCalcWith(operator, right) ==
    CompiledRule("calc", 4,
        <<OpSearchAttributeBinding(0, "in", 2),
          OpCalculation(3, CalcBinOp(operator, CalcBinding(2), CalcValue(right))), OpEnd>>,
        <<ApplyAddBindingAttribute(0, "result", 3)>>)

CalcPool == {RuleCalcWith(operator, right) : operator \in ArithBinOp, right \in CalcRights}

\* attributes_mut(1).add("in", value)
CalcAdd ==
    /\ ValueCount(access, 1) < MaxValues
    /\ \E value \in CalcLefts : access' = AccessAdd(access, 1, "in", value)
    /\ last' = NoLast
    /\ UNCHANGED <<OBJECT_ID_SEQUENCE, txlog, nwrites, ntx, run>>

\* The selection of a rule with a calculation is searched on the space, up
\* to the first assignment and for all assignments, and the rule is attempted.
CalcFind ==
    /\ last.op = "none"
    /\ \E rule \in CalcPool :
          \E first \in {find_first_bindings(rule.ops, access, SearchBindings(rule))},
             all \in {search_bindings(rule.ops, access, SearchBindings(rule), "Continue")},
             fired \in {attempt_rule_firing(rule, access, SearchBindings(rule),
                                            OBJECT_ID_SEQUENCE)} :
                last' = [NoLast EXCEPT !.op = "calc", !.arg = rule, !.ret = first,
                                       !.inner = all, !.tx = fired]
    /\ UNCHANGED <<access, OBJECT_ID_SEQUENCE, txlog, nwrites, ntx, run>>

NextCalc ==
    \/ CalcAdd
    \/ CalcFind

SpecCalc == InitSearch /\ [][NextCalc]_vars

\* The integer the operator gives on two integers, without regard to range.
ExactInt(operator, left, right) ==
    CASE operator = "Add" -> left + right
      [] operator = "Sub" -> left - right
      [] operator = "Mul" -> left * right
      [] operator = "Div" -> TruncDiv(left, right)

\* The calculation has a value: numeric operands, no division by zero, and
\* on two Ints a result inside the Int range.
HasValue(operator, left, right) ==
    /\ IsNumber(left) /\ IsNumber(right)
    /\ operator = "Div" => Num(right) # 0
    /\ (left.t = "int" /\ right.t = "int") => InIntRange(ExactInt(operator, left.n, right.n))

\* The value of a calculation that has one: an Int on two Ints, else a Float.
ExactValue(operator, left, right) ==
    IF left.t = "int" /\ right.t = "int"
    THEN ValueInt(ExactInt(operator, left.n, right.n))
    ELSE CASE operator = "Add" ->
                 ValueFloat(Num(left) * Den(right) + Num(right) * Den(left),
                            Den(left) * Den(right))
           [] operator = "Sub" ->
                 ValueFloat(Num(left) * Den(right) - Num(right) * Den(left),
                            Den(left) * Den(right))
           [] operator = "Mul" -> ValueFloat(Num(left) * Num(right), Den(left) * Den(right))
           [] operator = "Div" -> ValueFloat(Num(left) * Den(right), Den(left) * Num(right))

\* The operator and the literal of the rule that was searched.
CalcOperator == last.arg.ops[2].operation.operator
CalcRight == last.arg.ops[2].operation.right.value

\* The values under in whose calculation has a value, in their order.
WithValue == SelectSeq(InValues(access), LAMBDA v : HasValue(CalcOperator, v, CalcRight))

\* C22: a Calculation whose evaluation leaves the Int range in Add, Sub, Mul
\* or Div, divides by zero or meets an operand that is no number fails its
\* branch, and the search goes on with the next value: there is no panic, no
\* error and no wrapped result. The search ends at End exactly for the
\* values whose calculation has a value, with that exact value bound.
C22_CalculationFailsBranch ==
    last.op = "calc" =>
        /\ ~last.ret.panic /\ ~last.inner.panic /\ ~last.tx.panic
        /\ Len(last.inner.ends) = Len(WithValue)
        /\ \A i \in 1..Len(WithValue) :
              /\ Bound(last.inner.ends[i], 2) = WithValue[i]
              /\ Bound(last.inner.ends[i], 3) =
                    ExactValue(CalcOperator, WithValue[i], CalcRight)
              /\ Bound(last.inner.ends[i], 3).t = "int" =>
                    InIntRange(Bound(last.inner.ends[i], 3).n)
        /\ last.ret.ret = (WithValue # <<>>)
        /\ last.tx.ret = (WithValue # <<>>)
        /\ last.ret.ret =>
              Bound(last.ret.bindings, 3) = ExactValue(CalcOperator, WithValue[1], CalcRight)

\* The search for $v + 2 on in = [MaxInt, 2] failed the branch of MaxInt and
\* ended with 4 for the second value.
C22_Witness ==
    /\ last.op = "calc"
    /\ CalcOperator = "Add"
    /\ CalcRight = ValueInt(2)
    /\ InValues(access) = <<ValueInt(MaxInt), ValueInt(2)>>
    /\ last.ret.ret
    /\ Bound(last.ret.bindings, 3) = ValueInt(4)
    /\ Len(last.inner.ends) = 1

(***************************************************************************)
(* space.rs: create_id of the spaces and transactions of one process,      *)
(* called by several callers at once.                                      *)
(***************************************************************************)
Callers == {1, 2}

\* OBJECT_ID_SEQUENCE.load: the value is read and the counter stays.
load_sequence(sequence) == [id |-> sequence, sequence |-> sequence]

\* OBJECT_ID_SEQUENCE.fetch_add(1, Ordering::SeqCst): [id, sequence].
fetch_add(sequence) == [id |-> sequence, sequence |-> sequence + 1]

\* What is known of the calls: the Ids returned so far, each with the depth of
\* the transaction that holds it now (0 for a space) and whether that
\* transaction was rolled back, and for each caller the Id it has fetched and
\* not returned yet (0 for none).
IdCalls(returned, fetched) == [NoLast EXCEPT !.op = "ids", !.log = returned, !.arg = fetched]

InitIds ==
    /\ access = <<SpaceNew>>
    /\ OBJECT_ID_SEQUENCE = 1
    /\ txlog = <<>>
    /\ nwrites = 0
    /\ ntx = 0
    /\ run = NoRun
    /\ last = IdCalls(<<>>, [c \in Callers |-> 0])

\* Space::create_id, first line: a caller fetches the counter.
CreateIdFetch ==
    /\ OBJECT_ID_SEQUENCE <= MaxIds
    /\ \E c \in Callers :
          /\ last.arg[c] = 0
          /\ \E r \in {fetch_add(OBJECT_ID_SEQUENCE)} :
                /\ OBJECT_ID_SEQUENCE' = r.sequence
                /\ last' = [last EXCEPT !.arg[c] = r.id]
    /\ UNCHANGED <<access, txlog, nwrites, ntx, run>>

\* Space::create_id returns Id(NonZeroU64) to a caller, who called it on the
\* current space or transaction through create_id, create_object or
\* create_root_id, or on another space of the process.
CreateIdReturn ==
    /\ \E c \in Callers, through \in {"create_id", "create_object", "create_root_id", "other"} :
          /\ last.arg[c] # 0
          /\ access' = CASE through = "create_object" -> AttributesMut(access, last.arg[c])
                          [] through = "create_root_id" -> RegisterRoot(access, last.arg[c]).acc
                          [] OTHER -> access
          /\ last' = [last EXCEPT
                         !.arg[c] = 0,
                         !.log = Append(@, [id |-> last.arg[c], undone |-> FALSE,
                                            depth |-> IF through = "other" THEN 0
                                                      ELSE Len(access) - 1])]
    /\ UNCHANGED <<OBJECT_ID_SEQUENCE, txlog, nwrites, ntx, run>>

\* transaction(body) is entered on the current space or transaction.
IdsTransactionBegin ==
    /\ ntx < MaxTx
    /\ ntx' = ntx + 1
    /\ access' = TransactionNew(access)
    /\ UNCHANGED <<OBJECT_ID_SEQUENCE, txlog, nwrites, run, last>>

\* The innermost transaction ends, committed or rolled back: its Ids go to
\* the access below it, or are gone with it.
IdsTransactionEnd ==
    /\ Len(access) > 1
    /\ \E commit \in BOOLEAN :
          /\ access' = TransactionEnd(access, commit).acc
          /\ last' = [last EXCEPT !.log =
                         [i \in DOMAIN @ |->
                             IF @[i].depth = Len(access) - 1 /\ ~@[i].undone
                             THEN IF commit THEN [@[i] EXCEPT !.depth = Len(access) - 2]
                                  ELSE [@[i] EXCEPT !.undone = TRUE]
                             ELSE @[i]]]
    /\ UNCHANGED <<OBJECT_ID_SEQUENCE, txlog, nwrites, ntx, run>>

NextIds ==
    \/ CreateIdFetch
    \/ CreateIdReturn
    \/ IdsTransactionBegin
    \/ IdsTransactionEnd

SpecIds == InitIds /\ [][NextIds]_vars

\* C23: create_id, on any space and on any transaction at any depth and in
\* any interleaving of callers, never returns an Id that it returned or
\* handed to another caller before, and never zero; the Ids of transactions
\* that were rolled back are among them, so they are not returned again.
C23_CreateIdFresh ==
    last.op = "ids" =>
        /\ \A i, j \in DOMAIN last.log : i # j => last.log[i].id # last.log[j].id
        /\ \A i \in DOMAIN last.log : last.log[i].id >= 1
        /\ \A c \in Callers :
              last.arg[c] # 0 =>
                 /\ \A i \in DOMAIN last.log : last.log[i].id # last.arg[c]
                 /\ \A d \in Callers \ {c} : last.arg[d] # last.arg[c]
        /\ \A i \in DOMAIN last.log : last.log[i].id < OBJECT_ID_SEQUENCE

\* An Id was created in a transaction that was rolled back, another caller had
\* fetched an Id meanwhile, and a later create_id on the space returned a
\* third Id.
C23_Witness ==
    /\ last.op = "ids"
    /\ Len(access) = 1
    /\ Len(last.log) = 3
    /\ last.log[1].undone
    /\ last.log[1].id = 2
    /\ last.log[2].id = 1
    /\ ~last.log[3].undone /\ last.log[3].depth = 0
    /\ last.log[3].id = 3

(***************************************************************************)
(* runtime.rs: search_bindings one pass of its loops at a time.            *)
(***************************************************************************)
\* The machine of search_bindings: at "op" it is at the head of the outer
\* loop, at "next_branch" at the head of the loop 'next_branch, and "done"
\* after a return (ret) or a panic.
Machine(pc, op_index, frames, bindings, ends, ret, panic) ==
    [pc |-> pc, op_index |-> op_index, frames |-> frames, bindings |-> bindings,
     ends |-> ends, ret |-> ret, panic |-> panic]

MachineNew(bindings) == Machine("op", 0, <<>>, bindings, <<>>, FALSE, FALSE)

Returned(m, ret) == [m EXCEPT !.pc = "done", !.ret = ret]
Panicked(m) == [m EXCEPT !.pc = "done", !.panic = TRUE]

\* One pass of the outer loop up to the match on flow: the op at op_index is
\* executed; r is what ExecOp gave for an op that is not End.
StepFlow(m, r) ==
    IF r.panic THEN Panicked([m EXCEPT !.bindings = r.bindings, !.frames = r.frames])
    ELSE IF r.flow = "NextOp"
    THEN [m EXCEPT !.bindings = r.bindings, !.frames = r.frames, !.op_index = @ + 1]
    ELSE [m EXCEPT !.bindings = r.bindings, !.frames = r.frames, !.pc = "next_branch"]

StepOp(ops, acc, m, control) ==
    IF m.op_index >= Len(ops) THEN Panicked(m)
    ELSE IF ops[m.op_index + 1].op = "End"
    THEN IF control = "Stop"
         THEN Returned([m EXCEPT !.ends = Append(@, m.bindings)], TRUE)
         ELSE [m EXCEPT !.ends = Append(@, m.bindings), !.pc = "next_branch"]
    ELSE StepFlow(m, ExecOp(ops[m.op_index + 1], acc, m.bindings, m.frames, m.op_index))

\* A pass of 'next_branch that takes the next value of an iteration and
\* leaves the iterator where it was.
StepBranchSameValue(m) ==
    IF m.frames = <<>> THEN Returned(m, FALSE)
    ELSE LET frame == m.frames[Len(m.frames)]
             popped == SubSeq(m.frames, 1, Len(m.frames) - 1)
         IN IF frame.kind = "NotScope"
            THEN [m EXCEPT !.op_index = frame.continue_ok, !.frames = popped, !.pc = "op"]
            ELSE IF frame.iter # <<>>
            THEN [m EXCEPT !.bindings = SetBound(@, frame.binding, Head(frame.iter)),
                           !.op_index = frame.continue_op_index, !.pc = "op"]
            ELSE [m EXCEPT !.frames = popped]

\* One pass of the loop 'next_branch.
StepBranch(m) ==
    IF m.frames = <<>> THEN Returned(m, FALSE)
    ELSE LET frame == m.frames[Len(m.frames)]
             popped == SubSeq(m.frames, 1, Len(m.frames) - 1)
         IN IF frame.kind = "NotScope"
            THEN [m EXCEPT !.op_index = frame.continue_ok, !.frames = popped, !.pc = "op"]
            ELSE IF frame.iter # <<>>
            THEN [m EXCEPT !.bindings = SetBound(@, frame.binding, Head(frame.iter)),
                           !.op_index = frame.continue_op_index,
                           !.frames = Append(popped, [frame EXCEPT !.iter = Tail(@)]),
                           !.pc = "op"]
            ELSE [m EXCEPT !.frames = popped]

RECURSIVE Pow(_, _)
Pow(b, e) == IF e = 0 THEN 1 ELSE b * Pow(b, e - 1)

\* A bound on the passes of a search: every search op ranges over at most
\* all values of the space, once for each value of the search ops before it,
\* and between two values each op of the list is passed at most once, with
\* at most one pass of 'next_branch for each frame and one more.
StepBound(ops, acc) ==
    LET searches == Cardinality({i \in DOMAIN ops : ops[i].op = "SearchAttributeBinding"})
        values == ValueCount(acc, 1) + ValueCount(acc, 2)
    IN Pow(values + 1, searches) * (2 * Len(ops) + 2)

\* A search is entered with a rule of the pool and a callback that stops at
\* the first End, or one that always continues.
MachineStart ==
    /\ last.op = "none"
    /\ \E rule \in SearchPool, control \in {"Stop", "Continue"} :
          last' = [NoLast EXCEPT !.op = "machine", !.arg = rule, !.tx = control,
                                 !.inner = MachineNew(SearchBindings(rule))]
    /\ UNCHANGED <<access, OBJECT_ID_SEQUENCE, txlog, nwrites, ntx, run>>

\* One pass of the loop the machine is in.
MachineStep ==
    /\ last.op = "machine"
    /\ last.inner.pc # "done"
    /\ last.steps <= StepBound(last.arg.ops, access)
    /\ last' = [last EXCEPT
                   !.steps = @ + 1,
                   !.inner = IF @.pc = "op" THEN StepOp(last.arg.ops, access, @, last.tx)
                             ELSE StepBranch(@)]
    /\ UNCHANGED <<access, OBJECT_ID_SEQUENCE, txlog, nwrites, ntx, run>>

NextMachine ==
    \/ SearchAdd
    \/ MachineStart
    \/ MachineStep

SpecMachine == InitSearch /\ [][NextMachine]_vars

\* C24: for the op-lists of the rules and every space, search_bindings comes
\* to its return within StepBound passes of its loops, with a callback that
\* stops at the first End and with one that always continues; it never
\* panics, it returns what the search as a whole gives, and false when it
\* never came to End or when the callback always continued.
C24_SearchTerminates ==
    last.op = "machine" =>
        /\ last.steps <= StepBound(last.arg.ops, access)
        /\ ~last.inner.panic
        /\ last.inner.pc = "done" =>
              /\ last.inner.ret = (last.tx = "Stop" /\ last.inner.ends # <<>>)
              /\ \E r \in {search_bindings(last.arg.ops, access,
                                             SearchBindings(last.arg), last.tx)} :
                    /\ r.ret = last.inner.ret
                    /\ r.ends = last.inner.ends
                    /\ r.bindings = last.inner.bindings
                    /\ ~r.panic

\* The search of the rule with the nested nots, with a callback that always
\* continues, returned false after it came to End twice.
C24_Witness ==
    /\ last.op = "machine"
    /\ last.arg.name = "nested"
    /\ last.tx = "Continue"
    /\ last.inner.pc = "done"
    /\ ~last.inner.ret
    /\ Len(last.inner.ends) = 2
    /\ last.steps > 2 * Len(last.arg.ops)

(***************************************************************************)
(* space.rs: the roots of a space and of the transactions on it.           *)
(***************************************************************************)
\* What the callers know of the roots of one access: the Ids that are
\* registered, and the pairs <<a, b>> of them with a registered before b.
Registered(ids, before) == [ids |-> ids, before |-> before]

RegisteredAdd(g, id) ==
    IF id \in g.ids THEN g
    ELSE Registered(g.ids \cup {id}, g.before \cup {<<a, id>> : a \in g.ids})

RegisteredRemove(g, id) ==
    Registered(g.ids \ {id}, {p \in g.before : p[1] # id /\ p[2] # id})

\* The call on the roots that was made last, what it returned, the access
\* before it (for the calls that write the roots), and the knowledge of the callers for each open access.
RootCall(op, id, ret, before, known) ==
    [NoLast EXCEPT !.op = op, !.arg = id, !.ret = ret, !.snap = before, !.log = known]

InitRoots ==
    /\ access = <<SpaceNew>>
    /\ OBJECT_ID_SEQUENCE = 1
    /\ txlog = <<>>
    /\ nwrites = 0
    /\ ntx = 0
    /\ run = NoRun
    /\ last = RootCall("new", 0, FALSE, <<>>, <<Registered({}, {})>>)

KnownTop == last.log[Len(last.log)]
SetKnownTop(g) == [last.log EXCEPT ![Len(last.log)] = g]

\* The number of register_root, unregister_root and create_root_id calls
\* that are followed.
MaxRootCalls == 4

\* The Ids a caller can hold: those that create_id has returned.
CreatedIds == 1..(OBJECT_ID_SEQUENCE - 1)

\* create_id() on the current space or transaction.
RootsCreateId ==
    /\ OBJECT_ID_SEQUENCE <= MaxIds
    /\ OBJECT_ID_SEQUENCE' = fetch_add(OBJECT_ID_SEQUENCE).sequence
    /\ last' = RootCall("create_id", fetch_add(OBJECT_ID_SEQUENCE).id, TRUE, <<>>, last.log)
    /\ UNCHANGED <<access, txlog, nwrites, ntx, run>>

\* register_root(id) on the current space or transaction.
RootsRegister ==
    /\ nwrites < MaxRootCalls
    /\ nwrites' = nwrites + 1
    /\ \E id \in CreatedIds :
          \E r \in {RegisterRoot(access, id)} :
             /\ access' = r.acc
             /\ last' = RootCall("register_root", id, r.ret, access,
                                  SetKnownTop(RegisteredAdd(KnownTop, id)))
    /\ UNCHANGED <<OBJECT_ID_SEQUENCE, txlog, ntx, run>>

\* unregister_root(id) on the current space or transaction.
RootsUnregister ==
    /\ nwrites < MaxRootCalls
    /\ nwrites' = nwrites + 1
    /\ \E id \in CreatedIds :
          \E r \in {UnregisterRoot(access, id)} :
             /\ access' = r.acc
             /\ last' = RootCall("unregister_root", id, r.ret, access,
                                  SetKnownTop(RegisteredRemove(KnownTop, id)))
    /\ UNCHANGED <<OBJECT_ID_SEQUENCE, txlog, ntx, run>>

\* create_root_id() on the current space or transaction: create_id, then
\* register_root.
RootsCreateRootId ==
    /\ OBJECT_ID_SEQUENCE <= MaxIds
    /\ nwrites < MaxRootCalls
    /\ nwrites' = nwrites + 1
    /\ \E c \in {fetch_add(OBJECT_ID_SEQUENCE)} :
          \E r \in {RegisterRoot(access, c.id)} :
             /\ OBJECT_ID_SEQUENCE' = c.sequence
             /\ access' = r.acc
             /\ last' = RootCall("create_root_id", c.id, r.ret, access,
                                  SetKnownTop(RegisteredAdd(KnownTop, c.id)))
    /\ UNCHANGED <<txlog, ntx, run>>

\* transaction(body) is entered: the transaction starts with a clone of the roots.
RootsTransactionBegin ==
    /\ ntx < MaxTx
    /\ ntx' = ntx + 1
    /\ access' = TransactionNew(access)
    /\ last' = RootCall("begin", 0, FALSE, <<>>, Append(last.log, KnownTop))
    /\ UNCHANGED <<OBJECT_ID_SEQUENCE, txlog, nwrites, run>>

\* The innermost transaction ends: its roots replace those of the access
\* below it, or are dropped.
RootsTransactionEnd ==
    /\ Len(access) > 1
    /\ \E commit \in BOOLEAN :
          /\ access' = TransactionEnd(access, commit).acc
          /\ last' = RootCall("end", 0, commit, <<>>,
                        IF commit
                        THEN [Outer(last.log) EXCEPT ![Len(last.log) - 1] = KnownTop]
                        ELSE Outer(last.log))
    /\ UNCHANGED <<OBJECT_ID_SEQUENCE, txlog, nwrites, ntx, run>>

NextRoots ==
    \/ RootsCreateId
    \/ RootsRegister
    \/ RootsUnregister
    \/ RootsCreateRootId
    \/ RootsTransactionBegin
    \/ RootsTransactionEnd

SpecRoots == InitRoots /\ [][NextRoots]_vars

\* roots() of the access at this depth.
RootsAt(l) == access[l].roots

\* C25: after any sequence of register_root, unregister_root and
\* create_root_id on a space or a transaction, roots() holds each Id at most
\* once and lists the registered Ids in the order of their registration;
\* register_root of an Id that is present, and unregister_root of one that is
\* not, return false and change nothing, and the other calls return true.
C25_RootsOrderedSet ==
    last.op \in {"new", "create_id", "register_root", "unregister_root", "create_root_id", "begin", "end"} =>
        /\ Len(last.log) = Len(access)
        /\ \A l \in DOMAIN access :
              /\ \A i, j \in DOMAIN RootsAt(l) : i # j => RootsAt(l)[i] # RootsAt(l)[j]
              /\ {RootsAt(l)[i] : i \in DOMAIN RootsAt(l)} = last.log[l].ids
              /\ \A i, j \in DOMAIN RootsAt(l) :
                    i < j => <<RootsAt(l)[i], RootsAt(l)[j]>> \in last.log[l].before
        /\ last.op = "register_root" =>
              /\ last.ret = ~SeqContains(Roots(last.snap), last.arg)
              /\ ~last.ret => access = last.snap
        /\ last.op = "unregister_root" =>
              /\ last.ret = SeqContains(Roots(last.snap), last.arg)
              /\ ~last.ret => access = last.snap
        /\ last.op = "create_root_id" =>
              /\ last.ret
              /\ Roots(access) = Append(Roots(last.snap), last.arg)

\* The Id 1 was registered before the Id 2, unregistered and registered
\* again: a further register_root(1) returns false and roots() stays [2, 1].
C25_Witness ==
    /\ last.op = "register_root"
    /\ last.arg = 1
    /\ ~last.ret
    /\ Roots(access) = <<2, 1>>
    /\ KnownTop.before = {<<2, 1>>}

(***************************************************************************)
(* space.rs: the attribute lists of objects, written and read on a space   *)
(* and inside the transactions on it.                                      *)
(***************************************************************************)
\* The number of add and remove calls that are followed.
MaxAttrCalls == 3

\* The object that is written, and the objects that are read.
Written == 1
AttrObjects == {1, 2}
AttrNames == {"a", "b"}
AttrValues == {ValueInt(1), ValueInt(2)}

\* The call on an attribute list that was made last, what it returned and
\* the access before it.
AttrCall(op, object, name, value, ret, before) ==
    [NoLast EXCEPT !.op = op, !.arg = [id |-> object, name |-> name, value |-> value],
                   !.ret = ret, !.snap = before]

\* A space on which AttrObjects have been created, the second with a value:
\* create_object() twice and attributes_mut(2).add("b", 2).
InitAttrs ==
    /\ access = AccessAdd(<<SpaceNew>>, 2, "b", ValueInt(2))
    /\ OBJECT_ID_SEQUENCE = 3
    /\ txlog = <<>>
    /\ nwrites = 0
    /\ ntx = 0
    /\ run = NoRun
    /\ last = NoLast

\* attributes_mut(object).add(name, value) on the current access.
AttrsAdd ==
    /\ nwrites < MaxAttrCalls
    /\ nwrites' = nwrites + 1
    /\ \E object \in {Written}, name \in AttrNames, value \in AttrValues :
          /\ access' = AccessAdd(access, object, name, value)
          /\ last' = AttrCall("add", object, name, value, TRUE, access)
    /\ UNCHANGED <<OBJECT_ID_SEQUENCE, txlog, ntx, run>>

\* attributes_mut(object).remove_single(name, value) on the current access.
AttrsRemoveSingle ==
    /\ nwrites < MaxAttrCalls
    /\ nwrites' = nwrites + 1
    /\ \E object \in {Written}, name \in AttrNames, value \in AttrValues :
          \E r \in {AccessRemoveSingle(access, object, name, value)} :
             /\ access' = r.acc
             /\ last' = AttrCall("remove_single", object, name, value, r.removed, access)
    /\ UNCHANGED <<OBJECT_ID_SEQUENCE, txlog, ntx, run>>

\* transaction(body) is entered.
AttrsTransactionBegin ==
    /\ ntx < MaxTx
    /\ ntx' = ntx + 1
    /\ access' = TransactionNew(access)
    /\ last' = AttrCall("begin", 0, "", ValueInt(0), FALSE, <<>>)
    /\ UNCHANGED <<OBJECT_ID_SEQUENCE, txlog, nwrites, run>>

\* The innermost transaction ends with Some(tx) or None.
AttrsTransactionEnd ==
    /\ Len(access) > 1
    /\ \E commit \in BOOLEAN :
          /\ access' = TransactionEnd(access, commit).acc
          /\ last' = AttrCall("end", 0, "", ValueInt(0), commit, access)
    /\ UNCHANGED <<OBJECT_ID_SEQUENCE, txlog, nwrites, ntx, run>>

NextAttrs ==
    \/ AttrsAdd
    \/ AttrsRemoveSingle
    \/ AttrsTransactionBegin
    \/ AttrsTransactionEnd

SpecAttrs == InitAttrs /\ [][NextAttrs]_vars

\* The names of the groups of an attribute list, in their order.
GroupNames(attributes) == [g \in 1..Len(attributes) |-> attributes[g].name]

\* The (name, value) pairs of an attribute list, group after group and in
\* each group value after value.
Pairs(attributes) ==
    Concat([g \in 1..Len(attributes) |->
               [i \in 1..Len(attributes[g].values) |->
                   <<attributes[g].name, attributes[g].values[i]>>]])

\* C26: add(name, v) appends v at the end of the existing group for name, or
\* creates a new group at the end of the attribute list when there is none;
\* iter() yields the (name, value) pairs in group order and, within a group,
\* in insertion order; iter_named(name) yields the values of the first group
\* with that name in insertion order, or nothing when there is none.
C26_AddAndIterationOrder ==
    /\ \A object \in AttrObjects :
          LET now == Attributes(access, object)
          IN /\ AttrIter(now) = Pairs(now)
             /\ \A g, h \in DOMAIN now : g # h => now[g].name # now[h].name
             /\ \A name \in AttrNames :
                   [i \in DOMAIN AttrIterNamed(now, name) |-> <<name, AttrIterNamed(now, name)[i]>>]
                       = SelectSeq(AttrIter(now), LAMBDA p : p[1] = name)
    /\ last.op = "add" =>
          LET now == Attributes(access, last.arg.id)
              before == Attributes(last.snap, last.arg.id)
          IN /\ GroupNames(now) =
                    IF SeqContains(GroupNames(before), last.arg.name)
                    THEN GroupNames(before)
                    ELSE Append(GroupNames(before), last.arg.name)
             /\ \A name \in AttrNames :
                   AttrIterNamed(now, name) =
                       IF name = last.arg.name
                       THEN Append(AttrIterNamed(before, name), last.arg.value)
                       ELSE AttrIterNamed(before, name)

\* A value was added to the first of two groups after the second group was
\* created: iter() yields it before the values of the second group.
C26_Witness ==
    /\ last.op = "add"
    /\ last.arg = [id |-> 1, name |-> "a", value |-> ValueInt(2)]
    /\ AttrIter(Attributes(access, 1)) =
           <<(<<"a", ValueInt(1)>>), (<<"a", ValueInt(2)>>), (<<"b", ValueInt(1)>>)>>

\* The Ids that were mutated in the innermost transaction of acc.
Mutated(acc) == DOMAIN Top(acc).objects

\* C27: inside a transaction attributes(id) is the list of the overlay when
\* the Id was mutated in this transaction and the list of the parent
\* otherwise; the first attributes_mut(id) of a transaction starts from a copy
\* of the parent's list, so that the values the object had stay visible in
\* the transaction, and after its commit, next to the new ones; the parent's
\* own list is not modified before the commit.
C27_OverlayReadsAndCopyOnWrite ==
    /\ Len(access) > 1 =>
          \A object \in AttrObjects :
             Attributes(access, object) =
                 IF object \in Mutated(access)
                 THEN Top(access).objects[object]
                 ELSE Attributes(Outer(access), object)
    /\ (last.op \in {"add", "remove_single"} /\ Len(access) > 1) =>
          LET parent == Attributes(Outer(last.snap), last.arg.id)
              before == Attributes(last.snap, last.arg.id)
              now == Attributes(access, last.arg.id)
          IN /\ Outer(access) = Outer(last.snap)
             /\ last.arg.id \in Mutated(access)
             /\ last.arg.id \notin Mutated(last.snap) => before = parent
             /\ last.op = "add" =>
                   /\ now = AttrAdd(before, last.arg.name, last.arg.value)
                   /\ \A name \in AttrNames, value \in AttrValues :
                         AttrHas(before, name, value) => AttrHas(now, name, value)
                   /\ AttrHas(now, last.arg.name, last.arg.value)
             /\ (last.op = "remove_single" /\ ~last.ret) => now = before
    /\ last.op = "end" =>
          \A object \in AttrObjects :
             Attributes(access, object) =
                 IF last.ret
                 THEN Attributes(last.snap, object)
                 ELSE Attributes(Outer(last.snap), object)

\* The first add to an object in a transaction, the object holding a value
\* in the parent: both values are read in the transaction, the parent holds
\* the old list.
C27_Witness ==
    /\ last.op = "add"
    /\ Len(access) = 2
    /\ last.arg.id \notin Mutated(last.snap)
    /\ Attributes(Outer(access), 1) = <<[name |-> "a", values |-> <<ValueInt(1)>>]>>
    /\ Attributes(access, 1) = <<[name |-> "a", values |-> <<ValueInt(1)>>],
                                 [name |-> "b", values |-> <<ValueInt(2)>>]>>

(***************************************************************************)
(* compiler/optimizer.rs: the order of the selection ops. The cost is an   *)
(* f64 that starts at 1000.0 and is multiplied by 1.4 or lowered by        *)
(* tenths; it is kept exactly, as a multiple of 1 / CostScale.             *)
(***************************************************************************)
\* The number of selection clauses of a rule, those of not bodies included.
MaxClauses == 2

\* branches_next.truncate(16)
BeamWidth == 16

CostScale == 10 * Pow(5, MaxClauses)

CfgAssertObjectBinding(binding) == [cfg |-> "AssertObjectBinding", binding |-> binding]
CfgCompareBinding(binding, value) ==
    [cfg |-> "CompareBinding", binding |-> binding, value |-> value]
CfgRequireAttribute(binding, attribute) ==
    [cfg |-> "RequireAttribute", binding |-> binding, attribute |-> attribute]
CfgAttributeBinding(binding, attribute, value_binding) ==
    [cfg |-> "AttributeBinding", binding |-> binding, attribute |-> attribute,
     value_binding |-> value_binding]
CfgNot(body) == [cfg |-> "Not", body |-> body]

\* The bindings of the ops of select that name an object by its attributes.
KnownObjectBindings(select) ==
    {select[i].binding : i \in {j \in DOMAIN select :
        select[j].cfg \in {"AttributeBinding", "RequireAttribute", "RequireValueAttribute"}}}

\* eliminate_object_assertions: an AssertObjectBinding stays when no other op
\* shows its binding to be an object and no earlier one asserts the same.
RECURSIVE eliminate_object_assertions(_)
eliminate_object_assertions(select) ==
    LET keep(i) ==
            select[i].cfg = "AssertObjectBinding" =>
                /\ select[i].binding \notin KnownObjectBindings(select)
                /\ \A j \in 1..(i - 1) :
                      select[j].cfg = "AssertObjectBinding" =>
                          select[j].binding # select[i].binding
        kept == SelectSeq([i \in DOMAIN select |-> [i |-> i, op |-> select[i]]],
                          LAMBDA e : keep(e.i))
    IN [k \in DOMAIN kept |->
           IF kept[k].op.cfg = "Not"
           THEN CfgNot(eliminate_object_assertions(kept[k].op.body))
           ELSE kept[k].op]

\* OpState::new. nots notes, for each not that this state has placed, the
\* provided bindings before and after it.
OpStateNew(provided) ==
    [ops |-> <<>>, cost |-> 1000 * CostScale, provided |-> provided, nots |-> <<>>]

RECURSIVE PushNew(_, _)
PushNew(provided, new_bindings) ==
    IF new_bindings = <<>> THEN provided
    ELSE PushNew(IF SeqContains(provided, Head(new_bindings)) THEN provided
                 ELSE Append(provided, Head(new_bindings)),
                 Tail(new_bindings))

\* OpState::advance.
advance(prev, op, cost, new_bindings) ==
    [prev EXCEPT !.ops = Append(@, op), !.cost = cost,
                 !.provided = PushNew(@, new_bindings)]

\* OpState::bound.
bound(prev, binding) == SeqContains(prev.provided, binding)

\* cost - tenths / 10 and cost * 1.4
Less(cost, tenths) == cost - tenths * (CostScale \div 10)
Times14(cost) == (cost * 7) \div 5

\* Option<OpState>, and the Sequence as the call leaves it.
NoState(seq) == [some |-> FALSE, seq |-> seq]
SomeState(state, seq) == [some |-> TRUE, state |-> state, seq |-> seq]

InsertAt(s, n, e) == SubSeq(s, 1, n) \o <<e>> \o SubSeq(s, n + 1, Len(s))

\* sort_by on the cost is stable: a branch goes behind those of equal cost.
RECURSIVE SortByCost(_)
SortByCost(branches) ==
    IF branches = <<>> THEN <<>>
    ELSE LET n == Len(branches)
             b == branches[n]
             sorted == SortByCost(SubSeq(branches, 1, n - 1))
             before == SelectSeq(sorted, LAMBDA a : a.state.cost <= b.state.cost)
             after == SelectSeq(sorted, LAMBDA a : a.state.cost > b.state.cost)
         IN before \o <<b>> \o after

Truncate(s, n) == SubSeq(s, 1, IF Len(s) < n THEN Len(s) ELSE n)

\* A Sequence whose next() hands out the same index again.
SequenceSame(seq) == [index |-> seq, seq |-> seq]

\* Sequence::next: [index, seq].
SequenceNext(seq) == [index |-> seq, seq |-> seq + 1]

\* A sequence_len that counts the ops of the body alone, ops being the ops
\* of the body state with EndNot pushed.
BodyLen(ops, prev_ops) == Len(ops) - Len(prev_ops) - 1

\* let sequence_len = body_state.ops.len() - prev.ops.len(), taken after
\* EndNot was pushed.
SequenceLen(ops, prev_ops) == Len(ops) - Len(prev_ops)

RECURSIVE transform_op(_, _, _)
RECURSIVE assemble_ops(_, _, _)
RECURSIVE ExpandBranch(_, _, _)
RECURSIVE Expand(_, _)
RECURSIVE AssembleLoop(_, _, _)

\* transform_op: the state with the op placed after prev, or None when the op
\* is not admissible there.
transform_op(op, prev, seq) ==
    CASE op.cfg = "AssertObjectBinding" ->
            IF bound(prev, op.binding)
            THEN SomeState(advance(prev, OpAssertObjectBinding(op.binding),
                                   Less(prev.cost, 10), <<>>), seq)
            ELSE NoState(seq)
      [] op.cfg = "CompareBinding" ->
            IF bound(prev, op.binding)
            THEN SomeState(advance(prev, OpCompareBinding(op.binding, op.value),
                                   Less(prev.cost, 12), <<>>), seq)
            ELSE NoState(seq)
      [] op.cfg = "RequireAttribute" ->
            IF bound(prev, op.binding)
            THEN SomeState(advance(prev, OpRequireAttribute(op.binding, op.attribute),
                                   Less(prev.cost, 20), <<>>), seq)
            ELSE NoState(seq)
      [] op.cfg = "AttributeBinding" ->
            IF ~bound(prev, op.binding) THEN NoState(seq)
            ELSE IF bound(prev, op.value_binding)
            THEN SomeState(advance(prev,
                     OpRequireAttributeBinding(op.binding, op.attribute, op.value_binding),
                     Less(prev.cost, 12), <<>>), seq)
            ELSE SomeState(advance(prev,
                     OpSearchAttributeBinding(op.binding, op.attribute, op.value_binding),
                     Times14(prev.cost), <<op.value_binding>>), seq)
      [] op.cfg = "Not" ->
            LET body == assemble_ops(op.body, prev, seq)
            IN IF ~body.some THEN NoState(body.seq)
               ELSE LET index == SequenceNext(body.seq).index
                        ops == Append(body.state.ops, OpEndNot(index))
                        sequence_len == SequenceLen(ops, prev.ops)
                    IN SomeState(
                           [body.state EXCEPT
                               !.ops = InsertAt(ops, Len(prev.ops),
                                                OpBeginNot(index, sequence_len)),
                               !.nots = Append(@, [before |-> prev.provided,
                                                   after |-> body.state.provided])],
                           SequenceNext(body.seq).seq)

\* The inner loop of assemble_ops: every op left to the branch, from the
\* i-th on, is tried as its next op.
ExpandBranch(branch, i, seq) ==
    IF i > Len(branch.rest_ops) THEN [next |-> <<>>, seq |-> seq]
    ELSE LET t == transform_op(branch.rest_ops[i], branch.state, seq)
             r == ExpandBranch(branch, i + 1, t.seq)
         IN [next |-> (IF t.some
                       THEN <<[state |-> t.state, rest_ops |-> RemoveAt(branch.rest_ops, i)]>>
                       ELSE <<>>) \o r.next,
             seq |-> r.seq]

\* for (branch, rest_ops) in branches.drain(..)
Expand(branches, seq) ==
    IF branches = <<>> THEN [next |-> <<>>, seq |-> seq]
    ELSE LET first == ExpandBranch(Head(branches), 1, seq)
             rest == Expand(Tail(branches), first.seq)
         IN [next |-> first.next \o rest.next, seq |-> rest.seq]

\* for _ in 0..select.len(), n passes being left, and the end of assemble_ops.
AssembleLoop(branches, n, seq) ==
    IF n = 0
    THEN IF branches # <<>> THEN SomeState(Head(branches).state, seq) ELSE NoState(seq)
    ELSE IF branches = <<>> THEN NoState(seq)
    ELSE LET e == Expand(branches, seq)
         IN AssembleLoop(Truncate(SortByCost(e.next), BeamWidth), n - 1, e.seq)

\* assemble_ops.
assemble_ops(select, prev, seq) ==
    AssembleLoop(<<[state |-> prev, rest_ops |-> select]>>, Len(select), seq)

\* optimize_select: the panic of expect("select op order solution"), or the
\* provided bindings and the ops with End pushed.
optimize_select(sequence, cfg_ops, provided) ==
    LET state == assemble_ops(eliminate_object_assertions(cfg_ops), OpStateNew(provided),
                              sequence)
    IN IF ~state.some THEN [panic |-> TRUE]
       ELSE [panic |-> FALSE, provided |-> state.state.provided,
             ops |-> Append(state.state.ops, OpEnd), nots |-> state.state.nots]

\* optimize, for a rule without apply ops: the provided bindings are the
\* input bindings 0 .. input_bindings_len - 1.
optimize(select, input_bindings_len) ==
    optimize_select(0, select, [i \in 1..input_bindings_len |-> i - 1])

(***************************************************************************)
(* compiler.rs: compile, for rules of selection clauses. The rules are     *)
(* written clause by clause for a system with the input variable ROOT, out *)
(* of $variable.a: $value, $variable.a: $, $variable: 1 and not { .. }.    *)
(***************************************************************************)
RuleSelectBindingAttribute(variable, attribute, value) ==
    [ast |-> "BindingAttribute", variable |-> variable, attribute |-> attribute,
     value |-> value]
RuleSelectBinding(variable, literal) ==
    [ast |-> "Binding", variable |-> variable, literal |-> literal]
RuleSelectNot(sub_selects) == [ast |-> "Not", sub_selects |-> sub_selects]

\* compile_rule_selects and compile_rule_select: [env, ops].
RECURSIVE compile_rule_selects(_, _)
compile_rule_selects(env, rule_selects) ==
    IF rule_selects = <<>> THEN [env |-> env, ops |-> <<>>]
    ELSE LET rule_select == Head(rule_selects)
             this ==
                CASE rule_select.ast = "BindingAttribute" ->
                        LET b == bind(env, rule_select.variable)
                        IN IF rule_select.value = Wildcard
                           THEN [env |-> b.env,
                                 ops |-> <<CfgRequireAttribute(b.binding, rule_select.attribute)>>]
                           ELSE LET v == bind(b.env, rule_select.value)
                                IN [env |-> v.env,
                                    ops |-> <<CfgAttributeBinding(b.binding,
                                                 rule_select.attribute, v.binding)>>]
                  [] rule_select.ast = "Binding" ->
                        LET b == bind(env, rule_select.variable)
                        IN [env |-> b.env,
                            ops |-> <<CfgCompareBinding(b.binding, rule_select.literal)>>]
                  [] rule_select.ast = "Not" ->
                        LET sub == compile_rule_selects(env, rule_select.sub_selects)
                        IN [env |-> AfterNot(sub.env, env.visible_bindings),
                            ops |-> <<CfgNot(sub.ops)>>]
             rest == compile_rule_selects(this.env, Tail(rule_selects))
         IN [env |-> rest.env, ops |-> this.ops \o rest.ops]

\* ast_to_cfg for a rule without apply clauses: [result, select].
ast_to_cfg(rule_selects, input_variables) ==
    LET c == compile_rule_selects(BindAll(EnvNew, input_variables), rule_selects)
    IN [result |-> VerifyBindings(c.env), select |-> c.ops]

\* The rule as far as it is written: its clauses, and the clauses of the not
\* bodies that are open, the innermost last.
Writing(selects, open) ==
    [NoLast EXCEPT !.op = "rule", !.arg = [selects |-> selects, open |-> open]]

InitOptimize ==
    /\ access = <<SpaceNew>>
    /\ OBJECT_ID_SEQUENCE = 1
    /\ txlog = <<>>
    /\ nwrites = 0
    /\ ntx = 0
    /\ run = IdleRun(SystemNew("test", <<"ROOT">>))
    /\ last = Writing(<<>>, <<>>)

RECURSIVE Clauses(_)
Clauses(selects) ==
    IF selects = <<>> THEN 0
    ELSE (IF Head(selects).ast = "Not" THEN Clauses(Head(selects).sub_selects) ELSE 1)
         + Clauses(Tail(selects))

\* The clauses that are written, those of the open not bodies included.
ClausesWritten == Clauses(last.arg.selects) + Clauses(Concat(last.arg.open))

\* One more clause is written, into the innermost open not body or at the
\* top level.
WithClause(clause) ==
    IF last.arg.open # <<>>
    THEN Writing(last.arg.selects,
                 [last.arg.open EXCEPT ![Len(last.arg.open)] = Append(@, clause)])
    ELSE Writing(Append(last.arg.selects, clause), <<>>)

\* $variable.a: $value and $variable.a: $
WriteBindingAttribute ==
    /\ last.op = "rule"
    /\ ClausesWritten < MaxClauses
    /\ \E variable \in {"ROOT", "x"}, value \in {"x", "y", Wildcard} :
          last' = WithClause(RuleSelectBindingAttribute(variable, "a", value))
    /\ UNCHANGED <<access, OBJECT_ID_SEQUENCE, txlog, nwrites, ntx, run>>

\* $variable: 1
WriteBinding ==
    /\ last.op = "rule"
    /\ ClausesWritten < MaxClauses
    /\ \E variable \in {"x"} :
          last' = WithClause(RuleSelectBinding(variable, ValueInt(1)))
    /\ UNCHANGED <<access, OBJECT_ID_SEQUENCE, txlog, nwrites, ntx, run>>

\* not {
WriteNot ==
    /\ last.op = "rule"
    /\ Len(last.arg.open) < MaxNotDepth
    /\ ClausesWritten < MaxClauses
    /\ last' = Writing(last.arg.selects, Append(last.arg.open, <<>>))
    /\ UNCHANGED <<access, OBJECT_ID_SEQUENCE, txlog, nwrites, ntx, run>>

\* }
WriteNotEnd ==
    /\ last.op = "rule"
    /\ last.arg.open # <<>>
    /\ Top(last.arg.open) # <<>>
    /\ last' = LET clause == RuleSelectNot(Top(last.arg.open))
                   outer == Outer(last.arg.open)
               IN IF outer # <<>>
                  THEN Writing(last.arg.selects,
                               [outer EXCEPT ![Len(outer)] = Append(@, clause)])
                  ELSE Writing(Append(last.arg.selects, clause), <<>>)
    /\ UNCHANGED <<access, OBJECT_ID_SEQUENCE, txlog, nwrites, ntx, run>>

\* compile(): ast_to_cfg, and optimize when the rule is accepted.
Compile ==
    /\ last.op = "rule"
    /\ last.arg.open = <<>>
    /\ LET cfg == ast_to_cfg(last.arg.selects, run.system.input_variables)
       IN last' = [NoLast EXCEPT
                      !.op = "compiled",
                      !.arg = [selects |-> last.arg.selects,
                               result |-> cfg.result,
                               select |-> cfg.select,
                               optimized |->
                                   IF cfg.result.kind = "Ok"
                                   THEN optimize(cfg.select, Len(run.system.input_variables))
                                   ELSE [panic |-> FALSE, provided |-> <<>>, ops |-> <<>>,
                                         nots |-> <<>>]]]
    /\ UNCHANGED <<access, OBJECT_ID_SEQUENCE, txlog, nwrites, ntx, run>>

NextOptimize ==
    \/ WriteBindingAttribute
    \/ WriteBinding
    \/ WriteNot
    \/ WriteNotEnd
    \/ Compile

SpecOptimize == InitOptimize /\ [][NextOptimize]_vars

\* The rule was accepted by ast_to_cfg and handed to optimize.
Optimized == last.op = "compiled" /\ last.arg.result.kind = "Ok"

\* C28: when the optimizer places a not, the bindings that are newly bound
\* inside its body are not added to the provided bindings of the enclosing
\* scope: the provided bindings right after the not are those right before it.
C28_NotKeepsProvided ==
    (Optimized /\ ~last.arg.optimized.panic) =>
        \A i \in DOMAIN last.arg.optimized.nots :
           last.arg.optimized.nots[i].after = last.arg.optimized.nots[i].before

\* The bindings an op reads and the bindings it binds.
Reads(op) ==
    CASE op.op = "SearchAttributeBinding" -> {op.binding}
      [] op.op = "RequireAttributeBinding" -> {op.binding, op.value_binding}
      [] op.op \in {"RequireAttribute", "CompareBinding", "AssertObjectBinding"} -> {op.binding}
      [] OTHER -> {}

Binds(op) == IF op.op = "SearchAttributeBinding" THEN {op.value_binding} ELSE {}

\* The ops of the list read bound bindings only: scopes holds, innermost
\* first, the bindings bound in the not bodies that are open, and bindings
\* those bound outside of every not.
RECURSIVE ReadsBound(_, _, _)
ReadsBound(ops, scopes, bindings) ==
    IF ops = <<>> THEN TRUE
    ELSE LET op == Head(ops)
         IN CASE op.op = "BeginNot" -> ReadsBound(Tail(ops), <<{}>> \o scopes, bindings)
              [] op.op = "EndNot" ->
                    scopes # <<>> /\ ReadsBound(Tail(ops), Tail(scopes), bindings)
              [] OTHER ->
                    /\ Reads(op) \subseteq
                          (bindings \cup UNION {scopes[i] : i \in DOMAIN scopes})
                    /\ IF scopes = <<>>
                       THEN ReadsBound(Tail(ops), scopes, bindings \cup Binds(op))
                       ELSE ReadsBound(Tail(ops),
                                       <<Head(scopes) \cup Binds(op)>> \o Tail(scopes),
                                       bindings)

\* C29: in every op-list the optimizer produces, each op reads only bindings
\* that are input bindings or are bound by an op that stands before it in the
\* same or an enclosing scope; no op outside a not body reads a binding that
\* is bound only inside it.
C29_OpsReadBoundBindings ==
    (Optimized /\ ~last.arg.optimized.panic) =>
        ReadsBound(last.arg.optimized.ops, <<>>,
                   {i - 1 : i \in 1..Len(run.system.input_variables)})

\* C30: for every rule the compiler accepts, the optimizer finds an order of
\* all selection clauses in which each is admissible where it is placed:
\* optimize does not panic for lack of an op order solution.
C30_OptimizeFindsOrder ==
    Optimized => ~last.arg.optimized.panic

(***************************************************************************)
(* The not scopes of the op-lists that optimize hands out.                 *)
(***************************************************************************)
\* The op-list of the rule that was compiled.
CompiledOps == last.arg.optimized.ops

\* The place of the EndNot that closes the BeginNot at place i, by the
\* nesting of the ops alone (places counted from 1); 0 when none closes it.
RECURSIVE ClosedAt(_, _, _)
ClosedAt(ops, j, depth) ==
    IF j > Len(ops) THEN 0
    ELSE IF ops[j].op = "BeginNot" THEN ClosedAt(ops, j + 1, depth + 1)
    ELSE IF ops[j].op = "EndNot"
    THEN IF depth = 0 THEN j ELSE ClosedAt(ops, j + 1, depth - 1)
    ELSE ClosedAt(ops, j + 1, depth)

MatchingEndNot(ops, i) == ClosedAt(ops, i + 1, 0)

BeginNots(ops) == {i \in DOMAIN ops : ops[i].op = "BeginNot"}
EndNots(ops) == {i \in DOMAIN ops : ops[i].op = "EndNot"}

\* The number of ops a cfg op becomes, and the bodies of all nots of a
\* selection, nested ones included.
RECURSIVE OpCount(_)
OpCount(select) ==
    IF select = <<>> THEN 0
    ELSE (IF Head(select).cfg = "Not" THEN 2 + OpCount(Head(select).body) ELSE 1)
         + OpCount(Tail(select))

RECURSIVE NotBodies(_)
NotBodies(select) ==
    IF select = <<>> THEN <<>>
    ELSE (IF Head(select).cfg = "Not"
          THEN <<Head(select).body>> \o NotBodies(Head(select).body)
          ELSE <<>>) \o NotBodies(Tail(select))

\* The not scopes of the op-list are those of the clauses: every BeginNot is
\* closed by an EndNot of its index, every EndNot closes a BeginNot, no two
\* scopes share an index, and for every number of ops as many scopes hold
\* that many ops as not clauses have bodies of that many ops.
NotScopesOfClauses(ops, select) ==
    /\ Len(ops) = OpCount(select) + 1
    /\ \A i \in BeginNots(ops) :
          /\ MatchingEndNot(ops, i) # 0
          /\ ops[MatchingEndNot(ops, i)].index = ops[i].index
    /\ EndNots(ops) = {MatchingEndNot(ops, i) : i \in BeginNots(ops)}
    /\ \A i, j \in BeginNots(ops) : i # j => ops[i].index # ops[j].index
    /\ \A n \in 0..Len(ops) :
          Cardinality({i \in BeginNots(ops) : MatchingEndNot(ops, i) - i - 1 = n})
              = Cardinality({b \in DOMAIN NotBodies(select) :
                                OpCount(NotBodies(select)[b]) = n})

\* C31 as the claim has it: for every not clause of a compiled op-list the
\* ops of the body lie between BeginNot{index, sequence_len} and
\* EndNot{index}, no other pair of the list has the index, and sequence_len
\* is the number of the ops of the body.
C31_SequenceLenIsBodyLen ==
    (Optimized /\ ~last.arg.optimized.panic) =>
        /\ NotScopesOfClauses(CompiledOps, last.arg.select)
        /\ \A i \in BeginNots(CompiledOps) :
              CompiledOps[i].sequence_len = MatchingEndNot(CompiledOps, i) - i - 1

\* C31: for every not clause of a compiled op-list the ops of the body lie
\* between BeginNot{index, sequence_len} and EndNot{index}, no other pair of
\* the list has the index, and sequence_len is the number of the ops of the
\* body and one more, the EndNot being counted.
C31_NotScopeStructure ==
    (Optimized /\ ~last.arg.optimized.panic) =>
        /\ NotScopesOfClauses(CompiledOps, last.arg.select)
        /\ \A i \in BeginNots(CompiledOps) :
              CompiledOps[i].sequence_len = MatchingEndNot(CompiledOps, i) - i

\* The rule not { $ROOT.a: $x, not { $x.a: $ } } is compiled: the inner
\* scope has index 0 and sequence_len 2, the outer has index 1 and
\* sequence_len 5.
C31_Witness ==
    /\ Optimized
    /\ ~last.arg.optimized.panic
    /\ CompiledOps = <<OpBeginNot(1, 5), OpSearchAttributeBinding(0, "a", 1),
                       OpBeginNot(0, 2), OpRequireAttribute(1, "a"), OpEndNot(0),
                       OpEndNot(1), OpEnd>>

\* The op_index the runtime puts into the NotScope frame when it executes
\* the BeginNot at place i of the list (op_index = i - 1).
ContinueOk(ops, i) == ExecOp(ops[i], <<SpaceNew>>, <<>>, <<>>, i - 1).frames[1].continue_ok

\* C32: for every BeginNot at position p of an op-list of the optimizer, the
\* position p + sequence_len + 1 that the runtime stores in the NotScope frame
\* is the position right behind the matching EndNot and lies inside the
\* op-list, also for nested nots.
C32_ResumeBehindEndNot ==
    (Optimized /\ ~last.arg.optimized.panic) =>
        \A i \in BeginNots(CompiledOps) :
           /\ MatchingEndNot(CompiledOps, i) # 0
           /\ CompiledOps[MatchingEndNot(CompiledOps, i)].index = CompiledOps[i].index
           /\ ContinueOk(CompiledOps, i) = (i - 1) + CompiledOps[i].sequence_len + 1
           /\ ContinueOk(CompiledOps, i) = (MatchingEndNot(CompiledOps, i) - 1) + 1
           /\ ContinueOk(CompiledOps, i) < Len(CompiledOps)

\* The rule not { not { $ROOT.a: $ } }, $ROOT.a: $ is compiled: the outer
\* not resumes at the op behind its EndNot, the inner at the outer EndNot.
C32_Witness ==
    /\ Optimized
    /\ ~last.arg.optimized.panic
    /\ \E i, j \in BeginNots(CompiledOps) :
          /\ i < j
          /\ MatchingEndNot(CompiledOps, j) < MatchingEndNot(CompiledOps, i)
          /\ CompiledOps[ContinueOk(CompiledOps, j) + 1].op = "EndNot"
          /\ CompiledOps[ContinueOk(CompiledOps, i) + 1].op = "RequireAttribute"

(***************************************************************************)
(* runtime.rs: EndNot in the search machine.                               *)
(***************************************************************************)
\* The op the machine stands at.
MachineOp == last.arg.ops[last.inner.op_index + 1]

\* The places of the NotScope frames with this index on the frame stack.
ScopeFrames(frames, index) ==
    {i \in DOMAIN frames : frames[i].kind = "NotScope" /\ frames[i].index = index}

\* C33: whenever the search executes EndNot{idx}, exactly one NotScope frame
\* with the index idx is on the frame stack; EndNot removes that frame and
\* every frame above it, leaves the frames below it as they are, and then
\* backtracks (NextBranch); the lookup of the frame never fails.
C33_EndNotTruncatesScope ==
    (last.op = "machine" /\ last.inner.pc # "done"
        /\ last.inner.op_index < Len(last.arg.ops) /\ MachineOp.op = "EndNot") =>
        /\ last.inner.pc = "op" =>
              /\ Cardinality(ScopeFrames(last.inner.frames, MachineOp.index)) = 1
              /\ \E at \in ScopeFrames(last.inner.frames, MachineOp.index) :
                    \E next \in {StepOp(last.arg.ops, access, last.inner, last.tx)} :
                       /\ ~next.panic
                       /\ next.pc = "next_branch"
                       /\ next.frames = SubSeq(last.inner.frames, 1, at - 1)
                       /\ next.bindings = last.inner.bindings
                       /\ next.op_index = last.inner.op_index
        /\ last.inner.pc = "next_branch" =>
              /\ ~last.inner.panic
              /\ ScopeFrames(last.inner.frames, MachineOp.index) = {}

\* In the rule with the nested nots the EndNot of the outer scope was
\* executed with the iteration of the body above the frame of the scope: the
\* iteration of the search before the not is all that is left on the stack.
C33_Witness ==
    /\ last.op = "machine"
    /\ last.arg.name = "nested"
    /\ last.inner.pc = "next_branch"
    /\ last.inner.op_index < Len(last.arg.ops)
    /\ MachineOp = OpEndNot(1)
    /\ Len(last.inner.frames) = 1
    /\ last.inner.frames[1].kind = "Iter"

(***************************************************************************)
(* runtime.rs: a firing attempt stays with the first assignment.           *)
(***************************************************************************)
\* The satisfying assignments of the last attempted rule on the space it was
\* attempted on, in the order of the search.
AttemptEnds ==
    search_bindings(last.arg.rule.ops, last.snap, SearchBindings(last.arg.rule),
                    "Continue").ends

\* What the apply-list of the last attempted rule makes of an assignment.
AttemptApplied(bindings) ==
    apply_changes(last.arg.rule.apply_ops, last.snap, bindings, last.arg.idseq)

\* C34: a firing attempt applies the rule for the first satisfying assignment
\* only: when the apply-list fails for it the attempt reports failure and the
\* space is as before, whether or not the apply-list would succeed for a later
\* satisfying assignment; when it succeeds the space holds its changes.
C34_AttemptFirstAssignmentOnly ==
    (last.op = "attempt" /\ last.arg.rule \in RemovePool) =>
        /\ last.ret = (AttemptEnds # <<>> /\ AttemptApplied(AttemptEnds[1]).ret)
        /\ ~last.ret => /\ access = last.snap
                        /\ OBJECT_ID_SEQUENCE = last.arg.idseq
        /\ last.ret => View(access) = View(AttemptApplied(AttemptEnds[1]).acc)

\* $v was bound to 5 first, which in does not hold, and the attempt failed
\* and left the space, though the removal applies for the later assignment 10.
C34_Witness ==
    /\ last.op = "attempt"
    /\ last.arg.rule = RuleDropRequired
    /\ ~last.ret
    /\ access = last.snap
    /\ Len(AttemptEnds) = 2
    /\ Bound(AttemptEnds[1], 2) = ValueInt(5)
    /\ ~AttemptApplied(AttemptEnds[1]).ret
    /\ AttemptApplied(AttemptEnds[2]).ret

TotalLimits == 0..MaxLimit

\* A saturation run is entered with control_limit_total(N) as callback.
RunStartTotal == RunStartWith(SaturationModes, {LimitTotal(n) : n \in TotalLimits})

NextLimit ==
    \/ RunStartTotal
    \/ RunRuleSaturation
    \/ RunSaturation

SpecLimit == InitControl /\ [][NextLimit]_vars

\* C36: a saturation run under control_limit_total(N) commits at most N
\* firings, for every N >= 0.
C36_LimitTotalAtMostN ==
    (run.pc \in {"loop", "done"} /\ run.control.kind = "limit_total") =>
        Cardinality(FiredAttempts(run.attempts)) <= run.control.total_limit

(***************************************************************************)
(* space.rs: the removing operations of AttributesMut and the groups they  *)
(* leave behind.                                                           *)
(***************************************************************************)
\* The number of calls on the attribute list that are followed.
MaxGroupCalls == 3

\* remove_single_named: the last value of the first group with the name is
\* popped: [attrs, removed], removed = FALSE for None.
AttrRemoveSingleNamed(attributes, name) ==
    LET g == FirstGroup(attributes, name)
    IN IF g = 0 \/ attributes[g].values = <<>>
       THEN [attrs |-> attributes, removed |-> FALSE, value |-> ValueInt(0)]
       ELSE [attrs |-> [attributes EXCEPT
                           ![g].values = SubSeq(@, 1, Len(@) - 1)],
             removed |-> TRUE,
             value |-> attributes[g].values[Len(attributes[g].values)]]

\* remove_all_named: the values of the first group with the name are replaced
\* by an empty Vec and returned.
AttrRemoveAllNamed(attributes, name) ==
    LET g == FirstGroup(attributes, name)
    IN IF g = 0
       THEN [attrs |-> attributes, values |-> <<>>]
       ELSE [attrs |-> [attributes EXCEPT ![g].values = <<>>],
             values |-> attributes[g].values]

\* The closures that retain is called with: retain_named and clear_named
\* keep by name, a caller may keep by value.
KeepNamed(name) == [keep |-> "named", name |-> name]
KeepNotNamed(name) == [keep |-> "not_named", name |-> name]
KeepValue(value) == [keep |-> "value", value |-> value]
ShouldRetain(keep, name, value) ==
    CASE keep.keep = "named" -> name = keep.name
      [] keep.keep = "not_named" -> name # keep.name
      [] keep.keep = "value" -> value = keep.value

\* The values that a retain takes out of an attribute list.
RetainRemoved(attributes, keep) ==
    Len(Pairs(attributes))
        - Len(SelectSeq(Pairs(attributes), LAMBDA p : ShouldRetain(keep, p[1], p[2])))

\* A retain that takes the groups it emptied out of the list.
AttrRetainDropEmpty(attributes, keep) ==
    [attrs |-> SelectSeq(
                   [g \in 1..Len(attributes) |->
                       [attributes[g] EXCEPT !.values =
                           SelectSeq(@, LAMBDA v : ShouldRetain(keep, attributes[g].name, v))]],
                   LAMBDA group : group.values # <<>>),
     removed |-> RetainRemoved(attributes, keep)]

\* retain: Vec::retain on the values of every group: [attrs, removed].
AttrRetain(attributes, keep) ==
    [attrs |-> [g \in 1..Len(attributes) |->
                   [attributes[g] EXCEPT !.values =
                       SelectSeq(@, LAMBDA v : ShouldRetain(keep, attributes[g].name, v))]],
     removed |-> RetainRemoved(attributes, keep)]

AttrRetainNamed(attributes, name) == AttrRetain(attributes, KeepNamed(name))
AttrClearNamed(attributes, name) == AttrRetain(attributes, KeepNotNamed(name))

\* The entry of the object in the top layer is set to the attribute list.
AccessWith(acc, object, attributes) ==
    SetTop(AttributesMut(acc, object),
           [Top(AttributesMut(acc, object)) EXCEPT !.objects[object] = attributes])

\* A space on which the object Written has one value: create_object() and
\* attributes_mut(1).add("a", 1).
InitGroups ==
    /\ access = AccessAdd(<<SpaceNew>>, Written, "a", ValueInt(1))
    /\ OBJECT_ID_SEQUENCE = 2
    /\ txlog = <<>>
    /\ nwrites = 0
    /\ ntx = 0
    /\ run = NoRun
    /\ last = NoLast

\* The call made last on the attribute list, with the list before it in snap.
GroupCall(op, name, value, ret) ==
    [NoLast EXCEPT !.op = op, !.arg = [name |-> name, value |-> value], !.ret = ret,
                   !.snap = Attributes(access, Written)]

GroupsAdd ==
    /\ nwrites < MaxGroupCalls
    /\ nwrites' = nwrites + 1
    /\ \E name \in AttrNames, value \in AttrValues :
          /\ access' = AccessAdd(access, Written, name, value)
          /\ last' = GroupCall("add", name, value, TRUE)
    /\ UNCHANGED <<OBJECT_ID_SEQUENCE, txlog, ntx, run>>

GroupsRemoveSingle ==
    /\ nwrites < MaxGroupCalls
    /\ nwrites' = nwrites + 1
    /\ \E name \in AttrNames, value \in AttrValues :
          \E r \in {AccessRemoveSingle(access, Written, name, value)} :
             /\ access' = r.acc
             /\ last' = GroupCall("remove_single", name, value, r.removed)
    /\ UNCHANGED <<OBJECT_ID_SEQUENCE, txlog, ntx, run>>

GroupsRemoveSingleNamed ==
    /\ nwrites < MaxGroupCalls
    /\ nwrites' = nwrites + 1
    /\ \E name \in AttrNames :
          \E r \in {AttrRemoveSingleNamed(Attributes(access, Written), name)} :
             /\ access' = AccessWith(access, Written, r.attrs)
             /\ last' = GroupCall("remove_single_named", name, r.value, r.removed)
    /\ UNCHANGED <<OBJECT_ID_SEQUENCE, txlog, ntx, run>>

GroupsRemoveAllNamed ==
    /\ nwrites < MaxGroupCalls
    /\ nwrites' = nwrites + 1
    /\ \E name \in AttrNames :
          \E r \in {AttrRemoveAllNamed(Attributes(access, Written), name)} :
             /\ access' = AccessWith(access, Written, r.attrs)
             /\ last' = GroupCall("remove_all_named", name, ValueInt(0), r.values)
    /\ UNCHANGED <<OBJECT_ID_SEQUENCE, txlog, ntx, run>>

\* retain with a closure that keeps the values equal to one value.
GroupsRetain ==
    /\ nwrites < MaxGroupCalls
    /\ nwrites' = nwrites + 1
    /\ \E value \in AttrValues :
          \E r \in {AttrRetain(Attributes(access, Written), KeepValue(value))} :
             /\ access' = AccessWith(access, Written, r.attrs)
             /\ last' = GroupCall("retain", "", value, r.removed)
    /\ UNCHANGED <<OBJECT_ID_SEQUENCE, txlog, ntx, run>>

GroupsClearNamed ==
    /\ nwrites < MaxGroupCalls
    /\ nwrites' = nwrites + 1
    /\ \E name \in AttrNames :
          \E r \in {AttrClearNamed(Attributes(access, Written), name)} :
             /\ access' = AccessWith(access, Written, r.attrs)
             /\ last' = GroupCall("clear_named", name, ValueInt(0), r.removed)
    /\ UNCHANGED <<OBJECT_ID_SEQUENCE, txlog, ntx, run>>

NextGroups ==
    \/ GroupsAdd
    \/ GroupsRemoveSingle
    \/ GroupsRemoveSingleNamed
    \/ GroupsRemoveAllNamed
    \/ GroupsRetain
    \/ GroupsClearNamed

SpecGroups == InitGroups /\ [][NextGroups]_vars

\* The pairs of the groups g with from <= g <= to of an attribute list.
PairsOf(attributes, from, to) == Pairs(SubSeq(attributes, from, to))

\* C37: after any sequence of add, remove_single, remove_single_named,
\* remove_all_named, retain and clear_named on an object its attribute list
\* has at most one group for a name; no call takes a group out of the list or
\* moves it, so a group whose values were all removed keeps its position;
\* has_named is false for it while it is empty; and a value added under its
\* name later is iterated at the position of the group, behind the pairs of
\* the groups before it and before the pairs of the groups behind it.
C37_GroupsKeepPlace ==
    LET before == last.snap
        after == Attributes(access, Written)
        g == FirstGroup(before, last.arg.name)
    IN  /\ \A i, j \in DOMAIN after : after[i].name = after[j].name => i = j
        /\ \A name \in AttrNames :
              /\ AttrHasNamed(after, name) = (AttrIterNamed(after, name) # <<>>)
              /\ AttrHasNamed(after, name) =
                    (\E k \in DOMAIN Pairs(after) : Pairs(after)[k][1] = name)
        /\ last.op # "none" =>
              /\ GroupNames(after) =
                    IF last.op = "add" /\ g = 0
                    THEN Append(GroupNames(before), last.arg.name)
                    ELSE GroupNames(before)
              /\ last.op = "add" =>
                    Pairs(after) =
                       IF g = 0
                       THEN Append(Pairs(before), <<last.arg.name, last.arg.value>>)
                       ELSE PairsOf(before, 1, g)
                               \o <<<<last.arg.name, last.arg.value>>>>
                               \o PairsOf(before, g + 1, Len(before))
              /\ last.op \in {"remove_all_named", "clear_named"} =>
                    /\ ~AttrHasNamed(after, last.arg.name)
                    /\ Pairs(after) =
                          SelectSeq(Pairs(before), LAMBDA p : p[1] # last.arg.name)
              /\ last.op = "remove_single_named" =>
                    /\ last.ret = AttrHasNamed(before, last.arg.name)
                    /\ last.ret =>
                          /\ AttrIterNamed(before, last.arg.name) =
                                Append(AttrIterNamed(after, last.arg.name), last.arg.value)
                          /\ \A name \in AttrNames \ {last.arg.name} :
                                AttrIterNamed(after, name) = AttrIterNamed(before, name)
                    /\ ~last.ret => after = before
              /\ last.op = "retain" =>
                    Pairs(after) =
                       SelectSeq(Pairs(before), LAMBDA p : p[2] = last.arg.value)

\* The group a, first in the list, was emptied by clear_named while b held a
\* value; has_named("a") was false; the value added under a afterwards is
\* iterated before the value of b.
C37_Witness ==
    /\ last.op = "add"
    /\ last.arg.name = "a"
    /\ GroupNames(last.snap) = <<"a", "b">>
    /\ ~AttrHasNamed(last.snap, "a")
    /\ AttrHasNamed(last.snap, "b")
    /\ Pairs(Attributes(access, Written)) =
          <<<<"a", last.arg.value>>>> \o Pairs(last.snap)

(***************************************************************************)
(* system.rs: SystemLoader::load_str, a source text of several rules       *)
(* loaded into the systems of a loader.                                    *)
(***************************************************************************)
\* The most rules a source text holds.
MaxText == 3

\* A parsed rule: `rule system_name:name { select } do {}`.
AstRule(system_name, name, select) ==
    [system_name |-> system_name, name |-> name, select |-> select]

\* compiler::compile: ast_to_cfg, then the optimizer on the selection.
compile(rule, input_variables) ==
    LET cfg == ast_to_cfg(rule.select, input_variables)
    IN IF cfg.result.kind = "Ok"
       THEN [ok |-> TRUE, err |-> [kind |-> "none"],
             rule |-> CompiledRule(rule.name, cfg.result.bindings_len,
                          optimize(cfg.select, Len(input_variables)).ops, <<>>)]
       ELSE [ok |-> FALSE, err |-> [kind |-> "Compile", error |-> cfg.result],
             rule |-> CompiledRule(rule.name, 0, <<>>, <<>>)]

\* The index of the first system of the loader with the name, or 0.
FirstSystem(systems, system_name) ==
    LET hits == {i \in DOMAIN systems : systems[i].name = system_name}
    IN IF hits = {} THEN 0 ELSE CHOOSE i \in hits : \A j \in hits : i <= j

LoadOk(systems, count) ==
    [ok |-> TRUE, count |-> count, err |-> [kind |-> "none"], systems |-> systems]
LoadErr(systems, err) == [ok |-> FALSE, count |-> 0, err |-> err, systems |-> systems]

\* The 'rules loop of load_str over the rules that are left, the systems
\* being as the rules before left them.
RECURSIVE LoadRules(_, _, _)
LoadRules(systems, rules, rule_count) ==
    IF rules = <<>> THEN LoadOk(systems, rule_count)
    ELSE LET at == FirstSystem(systems, Head(rules).system_name)
         IN IF at = 0
            THEN LoadErr(systems, [kind |-> "NoSuchSystem", system |-> Head(rules).system_name])
            ELSE LET compiled == compile(Head(rules), systems[at].input_variables)
                 IN IF ~compiled.ok THEN LoadErr(systems, compiled.err)
                    ELSE LET loaded == load(systems[at], compiled.rule)
                         IN IF ~loaded.ok THEN LoadErr(systems, loaded.err)
                            ELSE LoadRules([systems EXCEPT ![at] = loaded.system],
                                           Tail(rules), rule_count)

\* A load_str that loads all the rules of a text or none.
loader_load_str_atomic(systems, contents) ==
    IF ~contents.parses THEN LoadErr(systems, [kind |-> "Parse"])
    ELSE IF LoadRules(systems, contents.rules, Len(contents.rules)).ok
    THEN LoadRules(systems, contents.rules, Len(contents.rules))
    ELSE LoadErr(systems, LoadRules(systems, contents.rules, Len(contents.rules)).err)

\* SystemLoader::load_str: the text is parsed as a whole, then its rules are
\* compiled and loaded one after the other.
loader_load_str(systems, contents) ==
    IF ~contents.parses THEN LoadErr(systems, [kind |-> "Parse"])
    ELSE LoadRules(systems, contents.rules, Len(contents.rules))

\* rule s:n { $X.x: $ } do {}, which compiles for the input variable X, and
\* rule s:n { $Y.x: $ } do {}, which does not.
SelectX == <<RuleSelectBindingAttribute("X", "x", Wildcard)>>
SelectY == <<RuleSelectBindingAttribute("Y", "x", Wildcard)>>

\* The rules that the source texts are made of; no system is called test3.
TextRules ==
    {AstRule("test1", "a", SelectX), AstRule("test1", "b", SelectX),
     AstRule("test2", "a", SelectX), AstRule("test3", "a", SelectX),
     AstRule("test1", "c", SelectY)}

\* The source texts: the text `wrong`, and the texts of up to MaxText rules.
Texts ==
    {[parses |-> FALSE, rules |-> <<>>]}
    \cup {[parses |-> TRUE, rules |-> rules] :
            rules \in UNION {[1..n -> TextRules] : n \in 0..MaxText}}

\* The loaders of tests/loading.rs: two systems of different names, and two
\* of the same name.
Loaders ==
    {<<SystemNew("test1", <<"X">>), SystemNew("test2", <<"X">>)>>,
     <<SystemNew("test1", <<"X">>), SystemNew("test1", <<"X">>)>>}

Loader(systems) == [mode |-> "loader", systems |-> systems]

InitLoader ==
    /\ access = <<SpaceNew>>
    /\ OBJECT_ID_SEQUENCE = 1
    /\ txlog = <<>>
    /\ nwrites = 0
    /\ ntx = 0
    /\ last = NoLast
    /\ run \in {Loader(systems) : systems \in Loaders}

\* loader.load_str(contents) on a new loader.
LoaderLoadStr ==
    /\ last.op = "none"
    /\ \E contents \in Texts :
          \E r \in {loader_load_str(run.systems, contents)} :
             /\ run' = Loader(r.systems)
             /\ last' = [NoLast EXCEPT !.op = "load_str", !.arg = contents, !.ret = r.ok,
                                       !.count = r.count, !.inner = r.err,
                                       !.snap = run.systems]
    /\ UNCHANGED <<access, OBJECT_ID_SEQUENCE, txlog, nwrites, ntx>>

NextLoader == LoaderLoadStr

SpecLoader == InitLoader /\ [][NextLoader]_vars

\* The rule at place k of the text cannot be loaded after the rules before it
\* were: no system of the loader has its system name, or it does not compile
\* for that system, or a rule before it went to that system under its name.
RuleFails(systems, rules, k) ==
    \/ FirstSystem(systems, rules[k].system_name) = 0
    \/ ~compile(rules[k], systems[FirstSystem(systems, rules[k].system_name)].input_variables).ok
    \/ \E j \in 1..(k - 1) :
          /\ rules[j].name = rules[k].name
          /\ FirstSystem(systems, rules[j].system_name)
                = FirstSystem(systems, rules[k].system_name)

\* The place of the first rule of the text that fails, or 0.
FirstFailing(systems, rules) ==
    LET fails == {k \in DOMAIN rules : RuleFails(systems, rules, k)}
    IN IF fails = {} THEN 0 ELSE CHOOSE k \in fails : \A j \in fails : k <= j

\* The names of the rules of a system, in the order of the rule list.
RuleNames(system) == [i \in DOMAIN system.rules |-> system.rules[i].name]

\* The names of the first n rules of the text that belong to the system at
\* place i of the loader, in the order of the text.
NamesFor(systems, rules, n, i) ==
    LET mine == SelectSeq(SubSeq(rules, 1, n),
                          LAMBDA rule : FirstSystem(systems, rule.system_name) = i)
    IN [j \in DOMAIN mine |-> mine[j].name]

\* C38: when load_str fails on the k-th rule of a source text (it does not
\* compile, its name is taken, or no system has its system name), the k-1
\* rules before it are loaded and the rules after it are not; a text without
\* such a rule is loaded whole and its rule count returned. Each rule is
\* loaded into the first system of the loader, in loader order, that has the
\* system name of the rule, and into no other.
C38_LoadStrIsPartial ==
    (last.op = "load_str" /\ last.arg.parses) =>
        LET k == FirstFailing(last.snap, last.arg.rules)
            n == IF k = 0 THEN Len(last.arg.rules) ELSE k - 1
        IN  /\ last.ret = (k = 0)
            /\ last.ret => last.count = Len(last.arg.rules)
            /\ Len(run.systems) = Len(last.snap)
            /\ \A i \in DOMAIN run.systems :
                  /\ run.systems[i].name = last.snap[i].name
                  /\ RuleNames(run.systems[i]) = NamesFor(last.snap, last.arg.rules, n, i)
            /\ k # 0 =>
                  last.inner.kind =
                     IF FirstSystem(last.snap, last.arg.rules[k].system_name) = 0
                     THEN "NoSuchSystem"
                     ELSE IF ~compile(last.arg.rules[k], <<"X">>).ok
                     THEN "Compile"
                     ELSE "DuplicateRuleName"

\* A text of three rules for test1 whose second rule does not compile was
\* loaded by a loader of two systems called test1: load_str failed, the first
\* rule is in the first system, the third rule is in no system, and the
\* second system is empty.
C38_Witness ==
    /\ last.op = "load_str"
    /\ ~last.ret
    /\ last.inner.kind = "Compile"
    /\ last.arg.rules =
          <<AstRule("test1", "a", SelectX), AstRule("test1", "c", SelectY),
            AstRule("test1", "b", SelectX)>>
    /\ RuleNames(run.systems[1]) = <<"a">>
    /\ run.systems[2].rules = <<>>
    /\ run.systems[2].name = "test1"
====
